---- MODULE Spec2Model ----
(***************************************************************************)
(* Model of the resource- and consistency-management layer of powerbi-mcp: *)
(*   - the keyed connector pool of PowerBIHandlers (src/src/api/handlers.py)*)
(*   - the per-model metadata cache of PowerBIConnector                    *)
(*     (src/src/models/connector.py)                                       *)
(*   - the freshness-marker query, the relationship resolver and its       *)
(*     formatting helpers (src/src/models/services/relationship_service.py)*)
(*   - handle_list_tables, which joins the pool and the caches             *)
(* Every critical section (a `with lock:` block) is one atomic action; the *)
(* engine I/O between two critical sections is a separate step, so that    *)
(* concurrent callers interleave exactly where the code lets them.         *)
(***************************************************************************)
EXTENDS Integers, FiniteSets, Sequences, TLC

(* ---------------------------- bounds ---------------------------------- *)
NumCallers == 2      \* concurrent requests in flight
MaxCalls   == 3      \* getOrCreate calls started in one behaviour
MaxClock   == 3      \* last value of the simulated utcnow()
MaxTTL     == 2      \* largest CONNECTION_TTL_SECONDS tried
MaxMarker  == 2      \* freshness markers are 1..MaxMarker
MaxCacheCalls == 3   \* discover_tables / get_table_schema calls in one behaviour
MaxCode    == 5      \* cardinality and cross-filter codes are 0..MaxCode
MaxRows    == 2      \* rows the marker query returns
MaxRels    == 2      \* relationships of the remote model
MaxTokens  == 5      \* pieces a DAX query is written from

(* ---------------------------- values ---------------------------------- *)
NoConnector == 0     \* Python None for a connector reference
NoTime      == 0 - 1 \* "no such call yet" in the history variables
NoCaller    == 0     \* a threading.Lock that nobody holds

Callers      == 1..NumCallers
ConnectorIds == 1..MaxCalls
Times        == 0..MaxClock

Endpoints == {"e1"}
Catalogs  == {"", "A", "B"}          \* "" : parameter absent (falsy)
Secrets   == {"s1", "s2"}

\* the tuple _extract_connection_params hands to getOrCreate
Arguments ==
  [xmla_endpoint : Endpoints, initial_catalog : Catalogs, tenant_id : {""},
   client_id : {""}, client_secret : Secrets]

NoArguments ==
  [xmla_endpoint |-> "", initial_catalog |-> "", tenant_id |-> "",
   client_id |-> "", client_secret |-> ""]

VARIABLES
  connection_ttl_seconds,  \* PowerBIHandlers.connection_ttl_seconds
  clock,                   \* datetime.utcnow()
  connector_pool,          \* PowerBIHandlers.connector_pool : key -> entry
  connected,               \* set of connectors whose .connected is True
  created,                 \* number of PowerBIConnector() built by getOrCreate
  calls,                   \* number of getOrCreate calls started
  pc,                      \* position of each caller in getOrCreate
  arguments,               \* the caller's connection parameters
  now,                     \* the caller's local `now`
  connector,               \* the caller's local `connector`
  is_new,                  \* the caller took the `connector is None` branch
  prePool,                 \* history: the pool map the caller's lookup found
  lastServed,              \* history: key -> `now` of the last call that returned
  lastConn,                \* history: key -> connector that call returned
  lastCall,                \* history: identity -> the last call that returned
  pool_lock                \* PowerBIHandlers.pool_lock: the caller holding it

poolVars == <<connection_ttl_seconds, clock, connector_pool, connected, created,
              calls, pc, arguments, now, connector, is_new, prePool,
              lastServed, lastConn, lastCall, pool_lock>>

VARIABLES
  self_connected,          \* PowerBIConnector.connected of the connector observed
  model_key,               \* PowerBIConnector.model_key ("" : None)
  connection_string,       \* PowerBIConnector.connection_string ("" : None)
  _model_cache,            \* PowerBIConnector._model_cache : key -> entry
  cache_calls,             \* number of cache operations started
  cpc,                     \* position of each caller in the cache operation
  op,                      \* "tables" (discover_tables) or "schema" (get_table_schema)
  table_name,              \* the caller's table_name argument
  current_marker,          \* the caller's local current_marker
  cache_key,               \* the caller's local cache_key
  cached_version,          \* the caller's local cached_version
  validity,                \* what the caller's _is_cache_valid call returned
  fetched,                 \* the caller's local tables / schema
  result,                  \* the value the call returned
  error,                   \* the message of the exception the call raised
  _cache_lock              \* PowerBIConnector._cache_lock: the caller holding it

cacheVars == <<self_connected, model_key, connection_string, _model_cache,
               cache_calls, cpc, op, table_name, current_marker,
               cache_key, cached_version, validity, fetched, result, error,
               _cache_lock>>

VARIABLES
  call                     \* the last call of a stateless service function

svcVars == <<call>>

VARIABLES
  h_pc,                    \* position of the request handler that is running
  h_arguments,             \* its `arguments`
  h_calls,                 \* getOrCreate calls started before it
  caches,                  \* connector -> that PowerBIConnector's _model_cache
  h_result,                \* what its discover_tables call did
  entry_marker,            \* history: key -> marker of the key's cached list
  h_ran_on                 \* the connectors handle_get_table_info has used

listVars == <<h_pc, h_arguments, h_calls, caches, h_result, entry_marker,
              h_ran_on>>

vars == <<poolVars, cacheVars, svcVars, listVars>>

(* ------------------------- pure helpers -------------------------------- *)
StillLockedBy(c) == c

\* the holder of a lock once caller c has left its `with lock:` block
Unlocked(c) == NoCaller

\* f"{xmla_endpoint}|{initial_catalog}|{tenant_id or ''}|{client_id or ''}"
_make_pool_key(xmla_endpoint, initial_catalog, tenant_id, client_id) ==
  xmla_endpoint \o "|" \o initial_catalog \o "|" \o tenant_id \o "|" \o client_id

KeyWithSecret(a) ==
  _make_pool_key(a.xmla_endpoint, a.initial_catalog, a.tenant_id, a.client_id)
    \o "|" \o a.client_secret

\* line 130: the key of a call's parameters
KeyOf(a) ==
  _make_pool_key(a.xmla_endpoint, a.initial_catalog, a.tenant_id, a.client_id)

MissingParams(a) == a.xmla_endpoint = "" \/ a.initial_catalog = ""

PoolKeys == {KeyOf(a) : a \in {b \in Arguments : ~MissingParams(b)}}

\* the four parameters that identify a connection (line 130), secret left out
IdentityOf(a) ==
  <<a.xmla_endpoint, a.initial_catalog, a.tenant_id, a.client_id>>

Identities == {IdentityOf(a) : a \in {b \in Arguments : ~MissingParams(b)}}

NoCall == [at |-> NoTime, conn |-> NoConnector, secret |-> ""]

ExpiredAtTTL(last_used, t) == t - last_used >= connection_ttl_seconds

NeverExpired(last_used, t) == FALSE

\* the test of line 115
Expired(last_used, t) == t - last_used > connection_ttl_seconds

CleanupEverything(pool, t) == [k \in {} |-> pool[k]]

\* the pool map after the sweep: every expired key deleted
_cleanup_pool_locked(pool, t) ==
  [k \in {j \in DOMAIN pool : ~Expired(pool[j].last_used, t)} |-> pool[k]]

PutIfAbsent(pool, k, e) ==
  [j \in DOMAIN pool \cup {k} |-> IF j \in DOMAIN pool THEN pool[j] ELSE e]

\* self.connector_pool[key] = entry (line 150)
Put(pool, k, e) == [j \in DOMAIN pool \cup {k} |-> IF j = k THEN e ELSE pool[j]]

EmptyPool == [k \in {} |-> 0]

\* what a frame's locals are while the caller is not inside getOrCreate
ResetLocals(c) ==
  /\ arguments' = [arguments EXCEPT ![c] = NoArguments]
  /\ now' = [now EXCEPT ![c] = 0]
  /\ connector' = [connector EXCEPT ![c] = NoConnector]
  /\ is_new' = [is_new EXCEPT ![c] = FALSE]
  /\ prePool' = [prePool EXCEPT ![c] = EmptyPool]

(* ------------------------------ Init ----------------------------------- *)
PoolStart ==
  /\ connection_ttl_seconds \in 1..MaxTTL
  /\ clock = 0
  /\ connector_pool = EmptyPool
  /\ connected = {}
  /\ created = 0
  /\ calls = 0
  /\ pc = [c \in Callers |-> "idle"]
  /\ arguments = [c \in Callers |-> NoArguments]
  /\ now = [c \in Callers |-> 0]
  /\ connector = [c \in Callers |-> NoConnector]
  /\ is_new = [c \in Callers |-> FALSE]
  /\ prePool = [c \in Callers |-> EmptyPool]
  /\ lastServed = [k \in PoolKeys |-> NoTime]
  /\ lastConn = [k \in PoolKeys |-> NoConnector]
  /\ lastCall = [i \in Identities |-> NoCall]
  /\ pool_lock = NoCaller

(* ----------------------------- actions --------------------------------- *)
\* time passes
Tick ==
  /\ clock < MaxClock
  /\ clock' = clock + 1
  /\ UNCHANGED <<connection_ttl_seconds, connector_pool, connected, created,
                 calls, pc, arguments, now, connector, is_new, prePool,
                 lastServed, lastConn, lastCall>>
  /\ UNCHANGED pool_lock
  /\ UNCHANGED <<cacheVars, svcVars, listVars>>

\* a caller is between two requests: "raised" keeps the frame of the call
\* whose exception is on its way up, until the caller's next request
Resting == {"idle", "raised"}

\* lines 124-128: a required parameter is absent, ValueError, nothing touched
GetOrCreateMissingParams(c) ==
  /\ pc[c] \in Resting
  /\ calls < MaxCalls
  /\ calls' = calls + 1
  /\ \E a \in Arguments : MissingParams(a)
  /\ pc' = [pc EXCEPT ![c] = "idle"]
  /\ ResetLocals(c)
  /\ UNCHANGED <<connection_ttl_seconds, clock, connector_pool, connected,
                 created, lastServed, lastConn, lastCall>>
  /\ UNCHANGED pool_lock
  /\ UNCHANGED <<cacheVars, svcVars, listVars>>

\* lines 124-131: parameters present, key made, `now` read before the lock
GetOrCreateBegin(c) ==
  /\ pc[c] \in Resting
  /\ calls < MaxCalls
  /\ calls' = calls + 1
  /\ \E a \in Arguments :
       /\ ~MissingParams(a)
       /\ arguments' = [arguments EXCEPT ![c] = a]
  /\ now' = [now EXCEPT ![c] = clock]
  /\ pc' = [pc EXCEPT ![c] = "lookup"]
  /\ connector' = [connector EXCEPT ![c] = NoConnector]
  /\ is_new' = [is_new EXCEPT ![c] = FALSE]
  /\ prePool' = [prePool EXCEPT ![c] = EmptyPool]
  /\ UNCHANGED <<connection_ttl_seconds, clock, connector_pool, connected,
                 created, lastServed, lastConn, lastCall>>
  /\ UNCHANGED pool_lock
  /\ UNCHANGED <<cacheVars, svcVars, listVars>>

StaleEntry(e, t) == e

\* the entry the lookup leaves for its own key on a hit (line 138)
RefreshedEntry(e, t) == [e EXCEPT !.last_used = t]

\* lines 133-141: first critical section
Lookup(c) ==
  LET key   == KeyOf(arguments[c])
      swept == _cleanup_pool_locked(connector_pool, now[c])
  IN
  /\ pc[c] = "lookup"
  /\ prePool' = [prePool EXCEPT ![c] = connector_pool]
  /\ IF key \in DOMAIN swept
       THEN /\ connector_pool' =
                 [swept EXCEPT ![key] = RefreshedEntry(swept[key], now[c])]
            /\ connector' = [connector EXCEPT ![c] = swept[key].connector]
       ELSE /\ connector_pool' = swept
            /\ connector' = [connector EXCEPT ![c] = NoConnector]
  /\ pc' = [pc EXCEPT ![c] = "dispatch"]
  /\ UNCHANGED <<connection_ttl_seconds, clock, connected, created, calls,
                 arguments, now, is_new, lastServed, lastConn, lastCall>>
  /\ pool_lock = NoCaller /\ pool_lock' = Unlocked(c)
  /\ UNCHANGED <<cacheVars, svcVars, listVars>>

\* lines 143-145, 151-152, 161: outside the lock, pick the branch; a pooled
\* connector that reports connected is returned at once
Dispatch(c) ==
  /\ pc[c] = "dispatch"
  /\ IF connector[c] = NoConnector
       THEN /\ created' = created + 1
            /\ connector' = [connector EXCEPT ![c] = created + 1]
            /\ is_new' = [is_new EXCEPT ![c] = TRUE]
            /\ pc' = [pc EXCEPT ![c] = "connect"]
            /\ UNCHANGED <<arguments, now, prePool, lastServed, lastConn, lastCall>>
       ELSE IF connector[c] \notin connected
         THEN /\ pc' = [pc EXCEPT ![c] = "connect"]
              /\ UNCHANGED <<created, connector, is_new, arguments, now,
                             prePool, lastServed, lastConn, lastCall>>
         ELSE /\ pc' = [pc EXCEPT ![c] = "idle"]
              /\ lastServed' = [lastServed EXCEPT ![KeyOf(arguments[c])] = now[c]]
              /\ lastConn' = [lastConn EXCEPT ![KeyOf(arguments[c])] = connector[c]]
              /\ lastCall' = [lastCall EXCEPT ![IdentityOf(arguments[c])] =
                                [at |-> now[c], conn |-> connector[c],
                                 secret |-> arguments[c].client_secret]]
              /\ ResetLocals(c)
              /\ created' = created
  /\ UNCHANGED <<connection_ttl_seconds, clock, connector_pool, connected, calls>>
  /\ UNCHANGED pool_lock
  /\ UNCHANGED <<cacheVars, svcVars, listVars>>

\* lines 146-148 / 153-155 with connector.connect succeeding (lines 114-118)
ConnectSucceeds(c) ==
  /\ pc[c] = "connect"
  /\ connected' = connected \cup {connector[c]}
  /\ pc' = [pc EXCEPT ![c] = "store"]
  /\ UNCHANGED <<connection_ttl_seconds, clock, connector_pool, created, calls,
                 arguments, now, connector, is_new, prePool, lastServed, lastConn, lastCall>>
  /\ UNCHANGED pool_lock
  /\ UNCHANGED <<cacheVars, svcVars, listVars>>

\* a connect failure that nevertheless leaves an entry for the key behind
ConnectFailsButStores(c) ==
  /\ pc[c] = "connect"
  /\ connected' = connected \ {connector[c]}
  /\ pc' = [pc EXCEPT ![c] = "raised"]
  /\ connector_pool' = Put(connector_pool, KeyOf(arguments[c]),
                           [connector |-> connector[c], last_used |-> clock])
  /\ lastServed' = [lastServed EXCEPT ![KeyOf(arguments[c])] = NoTime]
  /\ lastConn' = [lastConn EXCEPT ![KeyOf(arguments[c])] = NoConnector]
  /\ lastCall' = [lastCall EXCEPT ![IdentityOf(arguments[c])] = NoCall]
  /\ UNCHANGED <<connection_ttl_seconds, clock, created, calls,
                 arguments, now, connector, is_new, prePool>>
  /\ UNCHANGED pool_lock
  /\ UNCHANGED <<cacheVars, svcVars, listVars>>

\* connector.connect raising (lines 86, 119-122): the exception leaves getOrCreate
ConnectFails(c) ==
  /\ pc[c] = "connect"
  /\ connected' = connected \ {connector[c]}
  /\ pc' = [pc EXCEPT ![c] = "raised"]
  /\ lastServed' = [lastServed EXCEPT ![KeyOf(arguments[c])] = NoTime]
  /\ lastConn' = [lastConn EXCEPT ![KeyOf(arguments[c])] = NoConnector]
  /\ lastCall' = [lastCall EXCEPT ![IdentityOf(arguments[c])] = NoCall]
  /\ UNCHANGED <<connection_ttl_seconds, clock, connector_pool, created, calls,
                 arguments, now, connector, is_new, prePool>>
  /\ UNCHANGED pool_lock
  /\ UNCHANGED <<cacheVars, svcVars, listVars>>

\* lines 149-150 / 156-159: second critical section, then return connector
Store(c) ==
  LET key == KeyOf(arguments[c]) IN
  /\ pc[c] = "store"
  /\ connector_pool' =
       IF is_new[c]
         THEN Put(connector_pool, key,
                  [connector |-> connector[c], last_used |-> clock])
         ELSE IF key \in DOMAIN connector_pool
                THEN [connector_pool EXCEPT ![key].last_used = clock]
                ELSE connector_pool
  /\ pc' = [pc EXCEPT ![c] = "idle"]
  /\ lastServed' = [lastServed EXCEPT ![key] = now[c]]
  /\ lastConn' = [lastConn EXCEPT ![key] = connector[c]]
  /\ lastCall' = [lastCall EXCEPT ![IdentityOf(arguments[c])] =
                    [at |-> now[c], conn |-> connector[c],
                     secret |-> arguments[c].client_secret]]
  /\ ResetLocals(c)
  /\ UNCHANGED <<connection_ttl_seconds, clock, connected, created, calls>>
  /\ pool_lock = NoCaller /\ pool_lock' = Unlocked(c)
  /\ UNCHANGED <<cacheVars, svcVars, listVars>>

\* one request at a time: a single caller issues every call, each after the
\* one before it has returned or raised
SeqCallers == {1}

PoolNext ==
  \/ Tick
  \/ \E c \in Callers : GetOrCreateMissingParams(c)
  \/ \E c \in Callers : GetOrCreateBegin(c)
  \/ \E c \in Callers : Lookup(c)
  \/ \E c \in Callers : Dispatch(c)
  \/ \E c \in Callers : ConnectSucceeds(c)
  \/ \E c \in Callers : ConnectFails(c)
  \/ \E c \in Callers : Store(c)

PoolSeqNext ==
  \/ Tick
  \/ \E c \in SeqCallers : GetOrCreateMissingParams(c)
  \/ \E c \in SeqCallers : GetOrCreateBegin(c)
  \/ \E c \in Callers : Lookup(c)
  \/ \E c \in Callers : Dispatch(c)
  \/ \E c \in Callers : ConnectSucceeds(c)
  \/ \E c \in Callers : ConnectFails(c)
  \/ \E c \in Callers : Store(c)

(* ===================== metadata cache of a connector =================== *)
NoMarker == 0        \* Python None for a freshness marker
Markers  == 0..MaxMarker

ModelKeys  == {"e1|A", "e1|B"}       \* f"{xmla_endpoint}|{initial_catalog}"
TableNames == {"T1", "T2"}

\* what a fetch returns: the model it was read from, what was read ("tables"
\* for a table list, the table name for a schema) and the marker that the
\* fetching call had observed
NoValue == [model |-> "", what |-> "", seen |-> 0] \* Python None

NoEntry == [k \in {} |-> 0]

\* {"version": None, "tables": None, "table_schemas": {}} (lines 146, 176)
DefaultModelEntry ==
  [version |-> NoMarker, tables |-> NoValue, table_schemas |-> NoEntry]

\* the remote model the connector's fetches read: connect() sets the
\* connection string and the model key together (lines 87-100); a harness
\* that assigns model_key swaps the fetch stub with it
EngineModel(mk, cs) == IF mk # "" THEN mk ELSE cs

SharedModelKey(mk, cs) == "<unknown>"

\* lines 225-230
_get_effective_model_key(mk, cs) ==
  IF mk # "" THEN mk ELSE IF cs # "" THEN cs ELSE "<unknown>"

ValidUnlessBothKnown(cached_marker, marker) ==
  IF cached_marker = NoMarker \/ marker = NoMarker
    THEN TRUE
    ELSE cached_marker >= marker

ValidOnlyIfNewer(cached_marker, marker) ==
  IF cached_marker = NoMarker
    THEN marker = NoMarker
    ELSE IF marker = NoMarker THEN TRUE ELSE cached_marker > marker

AlwaysValid(cached_marker, marker) == TRUE

\* lines 232-241
_is_cache_valid(cached_marker, marker) ==
  IF cached_marker = NoMarker
    THEN marker = NoMarker
    ELSE IF marker = NoMarker THEN TRUE ELSE cached_marker >= marker

\* model_cache.setdefault(cache_key, {...}) (lines 146, 176)
SetDefault(cache, k) == IF k \in DOMAIN cache THEN cache[k] ELSE DefaultModelEntry

PutEntry(cache, k, e) ==
  [j \in DOMAIN cache \cup {k} |-> IF j = k THEN e ELSE cache[j]]

CacheResting == {"idle", "returned", "raised"}

\* discover_tables, get_table_schema, execute_dax_query
Operations == {"tables", "schema", "dax"}

\* what execute_dax_query returns: the rows of the model queried
DaxValue(mk, cs) == [model |-> EngineModel(mk, cs), what |-> "rows", seen |-> 0]

LibraryCheckedFirst(is_connected, available) ==
  IF ~available THEN "Pyadomd library not available"
  ELSE IF ~is_connected THEN "Not connected to Power BI"
  ELSE ""

\* the checks an operation makes before it touches the engine: connected
\* (connector.py 127, 155; query_service.py 32), then the client library
\* (_check_pyadomd, connector.py 67-80); "" when both pass
EntryChecks(is_connected, available) ==
  IF ~is_connected THEN "Not connected to Power BI"
  ELSE IF ~available THEN "Pyadomd library not available"
  ELSE ""

\* the messages a failing fetch raises (schema_service.py 36, 99, 204)
FetchErrors(o) ==
  {"Pyadomd library not available",
   IF o = "tables" THEN "Failed to discover tables" ELSE "Failed to get schema"}

\* the frame's locals once the operation has returned or raised
ClearLocals(c) ==
  /\ op' = [op EXCEPT ![c] = "tables"]
  /\ table_name' = [table_name EXCEPT ![c] = ""]
  /\ current_marker' = [current_marker EXCEPT ![c] = NoMarker]
  /\ cache_key' = [cache_key EXCEPT ![c] = ""]
  /\ cached_version' = [cached_version EXCEPT ![c] = NoMarker]
  /\ fetched' = [fetched EXCEPT ![c] = NoValue]

CacheStart ==
  /\ \/ self_connected = FALSE /\ connection_string = ""
     \/ self_connected = TRUE /\ connection_string = "test-connection"
  /\ model_key = ""
  /\ _model_cache = NoEntry
  /\ cache_calls = 0
  /\ cpc = [c \in Callers |-> "idle"]
  /\ op = [c \in Callers |-> "tables"]
  /\ table_name = [c \in Callers |-> ""]
  /\ current_marker = [c \in Callers |-> NoMarker]
  /\ cache_key = [c \in Callers |-> ""]
  /\ cached_version = [c \in Callers |-> NoMarker]
  /\ validity = [c \in Callers |-> "none"]
  /\ fetched = [c \in Callers |-> NoValue]
  /\ result = [c \in Callers |-> NoValue]
  /\ error = [c \in Callers |-> ""]
  /\ _cache_lock = NoCaller

CacheAtRest ==
  /\ CacheStart
  /\ self_connected = FALSE
  /\ connection_string = ""

\* connect() line 100, or a harness assigning connector.model_key, while no
\* operation is running on the connector
SetModelKey ==
  /\ \A c \in Callers : cpc[c] \in CacheResting
  /\ \E k \in ModelKeys : k # model_key /\ model_key' = k
  /\ UNCHANGED <<self_connected, connection_string, _model_cache, cache_calls, cpc, op, table_name, current_marker, cache_key,
                 cached_version, validity, fetched, result, error>>
  /\ UNCHANGED _cache_lock
  /\ UNCHANGED <<poolVars, svcVars, listVars>>

\* lines 127-128 / 155-156 / query_service.py 32-33: an operation called on
\* a connector that is not connected, the client library present or not
CacheOpNotConnected(c) ==
  /\ cpc[c] \in CacheResting
  /\ cache_calls < MaxCacheCalls
  /\ ~self_connected
  /\ cache_calls' = cache_calls + 1
  /\ cpc' = [cpc EXCEPT ![c] = "raised"]
  /\ \E o \in Operations : op' = [op EXCEPT ![c] = o]
  /\ \E available \in BOOLEAN :
       error' = [error EXCEPT ![c] = EntryChecks(self_connected, available)]
  /\ table_name' = [table_name EXCEPT ![c] = ""]
  /\ current_marker' = [current_marker EXCEPT ![c] = NoMarker]
  /\ cache_key' = [cache_key EXCEPT ![c] = ""]
  /\ cached_version' = [cached_version EXCEPT ![c] = NoMarker]
  /\ fetched' = [fetched EXCEPT ![c] = NoValue]
  /\ validity' = [validity EXCEPT ![c] = "none"]
  /\ result' = [result EXCEPT ![c] = NoValue]
  /\ UNCHANGED <<self_connected, model_key, connection_string, _model_cache>>
  /\ UNCHANGED _cache_lock
  /\ UNCHANGED <<poolVars, svcVars, listVars>>

\* discover_tables() / get_table_schema(t) entered on a connected connector
CacheOpBegin(c) ==
  /\ cpc[c] \in CacheResting
  /\ cache_calls < MaxCacheCalls
  /\ self_connected
  /\ cache_calls' = cache_calls + 1
  /\ \/ /\ op' = [op EXCEPT ![c] = "tables"]
        /\ table_name' = [table_name EXCEPT ![c] = ""]
     \/ /\ op' = [op EXCEPT ![c] = "schema"]
        /\ \E t \in TableNames : table_name' = [table_name EXCEPT ![c] = t]
  /\ cpc' = [cpc EXCEPT ![c] = "marker"]
  /\ current_marker' = [current_marker EXCEPT ![c] = NoMarker]
  /\ cache_key' = [cache_key EXCEPT ![c] = ""]
  /\ cached_version' = [cached_version EXCEPT ![c] = NoMarker]
  /\ validity' = [validity EXCEPT ![c] = "none"]
  /\ fetched' = [fetched EXCEPT ![c] = NoValue]
  /\ result' = [result EXCEPT ![c] = NoValue]
  /\ error' = [error EXCEPT ![c] = ""]
  /\ UNCHANGED <<self_connected, model_key, connection_string, _model_cache>>
  /\ UNCHANGED _cache_lock
  /\ UNCHANGED <<poolVars, svcVars, listVars>>

\* query_service.py 30-82: execute_dax_query on a connected connector; the
\* cache is not involved
ExecuteDaxQuery(c) ==
  /\ cpc[c] \in CacheResting
  /\ cache_calls < MaxCacheCalls
  /\ self_connected
  /\ cache_calls' = cache_calls + 1
  /\ op' = [op EXCEPT ![c] = "dax"]
  /\ \E available \in BOOLEAN, runs \in BOOLEAN :
       LET msg == EntryChecks(self_connected, available) IN
       IF msg # ""
         THEN /\ cpc' = [cpc EXCEPT ![c] = "raised"]
              /\ error' = [error EXCEPT ![c] = msg]
              /\ result' = [result EXCEPT ![c] = NoValue]
         ELSE IF runs
           THEN /\ cpc' = [cpc EXCEPT ![c] = "returned"]
                /\ error' = [error EXCEPT ![c] = ""]
                /\ result' = [result EXCEPT
                                ![c] = DaxValue(model_key, connection_string)]
           ELSE /\ cpc' = [cpc EXCEPT ![c] = "raised"]
                /\ error' = [error EXCEPT ![c] = "DAX query failed"]
                /\ result' = [result EXCEPT ![c] = NoValue]
  /\ table_name' = [table_name EXCEPT ![c] = ""]
  /\ current_marker' = [current_marker EXCEPT ![c] = NoMarker]
  /\ cache_key' = [cache_key EXCEPT ![c] = ""]
  /\ cached_version' = [cached_version EXCEPT ![c] = NoMarker]
  /\ fetched' = [fetched EXCEPT ![c] = NoValue]
  /\ validity' = [validity EXCEPT ![c] = "none"]
  /\ UNCHANGED <<self_connected, model_key, connection_string, _model_cache>>
  /\ UNCHANGED _cache_lock
  /\ UNCHANGED <<poolVars, svcVars, listVars>>

\* lines 130-131 / 158-159: the marker query (None on any failure), then the key
GetMarker(c) ==
  /\ cpc[c] = "marker"
  /\ \E m \in Markers : current_marker' = [current_marker EXCEPT ![c] = m]
  /\ cache_key' = [cache_key EXCEPT
                     ![c] = _get_effective_model_key(model_key, connection_string)]
  /\ cpc' = [cpc EXCEPT ![c] = "check"]
  /\ UNCHANGED <<self_connected, model_key, connection_string, _model_cache,
                 cache_calls, op, table_name, cached_version,
                 validity, fetched, result, error>>
  /\ UNCHANGED _cache_lock
  /\ UNCHANGED <<poolVars, svcVars, listVars>>

\* the cached value and marker the first critical section looks at, if any
CachedFor(c) ==
  LET k == cache_key[c] IN
  IF k \notin DOMAIN _model_cache
    THEN [present |-> FALSE, version |-> NoMarker, data |-> NoValue]
    ELSE IF op[c] = "tables"
      THEN [present |-> _model_cache[k].tables # NoValue,
            version |-> _model_cache[k].version,
            data    |-> _model_cache[k].tables]
      ELSE IF table_name[c] \in DOMAIN _model_cache[k].table_schemas
        THEN [present |-> TRUE,
              version |-> _model_cache[k].table_schemas[table_name[c]].version,
              data    |-> _model_cache[k].table_schemas[table_name[c]].data]
        ELSE [present |-> FALSE, version |-> NoMarker, data |-> NoValue]

\* lines 133-140 / 161-170: first critical section
CheckCache(c) ==
  LET found == CachedFor(c)
      ok    == _is_cache_valid(found.version, current_marker[c])
  IN
  /\ cpc[c] = "check"
  /\ IF found.present /\ ok
       THEN /\ validity' = [validity EXCEPT ![c] = "valid"]
            /\ result' = [result EXCEPT ![c] = found.data]
            /\ cpc' = [cpc EXCEPT ![c] = "returned"]
            /\ ClearLocals(c)
       ELSE /\ validity' = [validity EXCEPT
                              ![c] = IF found.present THEN "invalid" ELSE "none"]
            /\ cached_version' = [cached_version EXCEPT ![c] = found.version]
            /\ cpc' = [cpc EXCEPT ![c] = "fetch"]
            /\ UNCHANGED <<result, op, table_name, current_marker, cache_key,
                           fetched>>
  /\ UNCHANGED <<self_connected, model_key, connection_string, _model_cache,
                 cache_calls, error>>
  /\ _cache_lock = NoCaller /\ _cache_lock' = Unlocked(c)
  /\ UNCHANGED <<poolVars, svcVars, listVars>>

\* lines 143 / 173: the fetch reads the model the connector points at
FetchSucceeds(c) ==
  /\ cpc[c] = "fetch"
  /\ fetched' = [fetched EXCEPT
                   ![c] = [model |-> EngineModel(model_key, connection_string),
                           what  |-> IF op[c] = "tables" THEN "tables"
                                                          ELSE table_name[c],
                           seen  |-> current_marker[c]]]
  /\ cpc' = [cpc EXCEPT ![c] = "write"]
  /\ UNCHANGED <<self_connected, model_key, connection_string, _model_cache,
                 cache_calls, op, table_name, current_marker, cache_key,
                 cached_version, validity, result, error>>
  /\ UNCHANGED _cache_lock
  /\ UNCHANGED <<poolVars, svcVars, listVars>>

\* lines 143 / 173 raising: the exception leaves the operation
FetchFails(c) ==
  /\ cpc[c] = "fetch"
  /\ cpc' = [cpc EXCEPT ![c] = "raised"]
  /\ \E msg \in FetchErrors(op[c]) : error' = [error EXCEPT ![c] = msg]
  /\ ClearLocals(c)
  /\ validity' = [validity EXCEPT ![c] = "none"]
  /\ UNCHANGED <<self_connected, model_key, connection_string, _model_cache,
                 cache_calls, result>>
  /\ UNCHANGED _cache_lock
  /\ UNCHANGED <<poolVars, svcVars, listVars>>

\* schema_service.py lines 185-200 with measure_service.py lines 69-71: the
\* column query fails, the measure queries tried instead fail too, and the
\* fetch returns {"type": "error", ...} instead of raising
FetchReturnsError(c) ==
  /\ cpc[c] = "fetch"
  /\ op[c] = "schema"
  /\ fetched' = [fetched EXCEPT
                   ![c] = [model |-> EngineModel(model_key, connection_string),
                           what  |-> "error",
                           seen  |-> current_marker[c]]]
  /\ cpc' = [cpc EXCEPT ![c] = "write"]
  /\ UNCHANGED <<self_connected, model_key, connection_string, _model_cache,
                 cache_calls, op, table_name, current_marker, cache_key,
                 cached_version, validity, result, error>>
  /\ UNCHANGED _cache_lock
  /\ UNCHANGED <<poolVars, svcVars, listVars>>

WithTablesOnly(e, tables, marker) == [e EXCEPT !.tables = tables]

\* model_entry after lines 147-149
WithTables(e, tables, marker) ==
  [e EXCEPT !.tables = tables, !.version = marker]

BackfillVersion(e, marker) ==
  IF e.version = NoMarker THEN [e EXCEPT !.version = marker] ELSE e

\* lines 179-181
ModelVersionAfterSchema(e, marker) == BackfillVersion(e, marker)

WithOnlySchema(e, t, schema, marker) ==
  ModelVersionAfterSchema(
    [e EXCEPT !.table_schemas =
       [u \in {t} |-> [data |-> schema, version |-> marker]]],
    marker)

\* model_entry after lines 177-181
WithSchema(e, t, schema, marker) ==
  ModelVersionAfterSchema(
    [e EXCEPT !.table_schemas =
       [u \in DOMAIN e.table_schemas \cup {t} |->
          IF u = t THEN [data |-> schema, version |-> marker]
                   ELSE e.table_schemas[u]]],
    marker)

\* lines 145-151 / 175-183: second critical section, then return
WriteCache(c) ==
  LET k == cache_key[c]
      e == SetDefault(_model_cache, k)
  IN
  /\ cpc[c] = "write"
  /\ _model_cache' =
       PutEntry(_model_cache, k,
                IF op[c] = "tables"
                  THEN WithTables(e, fetched[c], current_marker[c])
                  ELSE WithSchema(e, table_name[c], fetched[c], current_marker[c]))
  /\ result' = [result EXCEPT ![c] = fetched[c]]
  /\ cpc' = [cpc EXCEPT ![c] = "returned"]
  /\ ClearLocals(c)
  /\ UNCHANGED <<self_connected, model_key, connection_string, cache_calls,
                 validity, error>>
  /\ _cache_lock = NoCaller /\ _cache_lock' = Unlocked(c)
  /\ UNCHANGED <<poolVars, svcVars, listVars>>

CacheNext ==
  \/ SetModelKey
  \/ \E c \in Callers : CacheOpNotConnected(c)
  \/ \E c \in Callers : CacheOpBegin(c)
  \/ \E c \in Callers : ExecuteDaxQuery(c)
  \/ \E c \in Callers : GetMarker(c)
  \/ \E c \in Callers : CheckCache(c)
  \/ \E c \in Callers : FetchSucceeds(c)
  \/ \E c \in Callers : FetchFails(c)
  \/ \E c \in Callers : WriteCache(c)

CacheSeqNext ==
  \/ SetModelKey
  \/ \E c \in SeqCallers : CacheOpNotConnected(c)
  \/ \E c \in SeqCallers : CacheOpBegin(c)
  \/ \E c \in SeqCallers : ExecuteDaxQuery(c)
  \/ \E c \in Callers : GetMarker(c)
  \/ \E c \in Callers : CheckCache(c)
  \/ \E c \in Callers : FetchSucceeds(c)
  \/ \E c \in Callers : FetchFails(c)
  \/ \E c \in Callers : WriteCache(c)

(* ==================== stateless service functions ====================== *)
\* no service function has been called yet
NoServiceCall ==
  [fn |-> "", args |-> <<>>, env |-> <<>>, out |-> <<>>, raised |-> FALSE,
   done |-> TRUE]

ServiceStart == call = NoServiceCall

\* a call about to be made: function, arguments, what the engine will do
Pending(fn, args, env) ==
  [fn |-> fn, args |-> args, env |-> env, out |-> <<>>, raised |-> FALSE,
   done |-> FALSE]

\* the call once the function has returned r.value or raised
Finished(r) == [call EXCEPT !.out = r.value, !.raised = r.raised, !.done = TRUE]

Returns(v) == [raised |-> FALSE, value |-> v]

Raises == [raised |-> TRUE, value |-> <<>>]

SeqsUpTo(S, n) == UNION {[1..k -> S] : k \in 0..n}

\* dict.get(key, default)
Get(map, key, default) == IF key \in DOMAIN map THEN map[key] ELSE default

(* ------------------ _format_cardinality, _format_cross_filter ---------- *)
Codes == 0..MaxCode

\* relationship_service.py line 218
cardinality_map == (1 :> "One") @@ (2 :> "Many")

\* relationship_service.py lines 216-221
_format_cardinality(from_cardinality, to_cardinality) ==
  Get(cardinality_map, from_cardinality, "Unknown") \o "-to-"
    \o Get(cardinality_map, to_cardinality, "Unknown")

filter_map_without_none == (1 :> "Single") @@ (2 :> "Both") @@ (3 :> "Automatic")

\* relationship_service.py line 225
filter_map ==
  (1 :> "Single") @@ (2 :> "Both") @@ (3 :> "Automatic") @@ (4 :> "None")

\* relationship_service.py lines 223-226
_format_cross_filter(cross_filter_behavior) ==
  Get(filter_map, cross_filter_behavior, "Unknown")

\* a formatting call about to be made on some codes
FormatCalls ==
  \/ \E f \in Codes, t \in Codes :
       call = Pending("_format_cardinality", <<f, t>>, <<>>)
  \/ \E x \in Codes : call = Pending("_format_cross_filter", <<x>>, <<>>)

FormatCardinality ==
  /\ call.fn = "_format_cardinality" /\ ~call.done
  /\ call' = Finished(Returns(_format_cardinality(call.args[1], call.args[2])))
  /\ UNCHANGED <<poolVars, cacheVars, listVars>>

FormatCrossFilter ==
  /\ call.fn = "_format_cross_filter" /\ ~call.done
  /\ call' = Finished(Returns(_format_cross_filter(call.args[1])))
  /\ UNCHANGED <<poolVars, cacheVars, listVars>>

(* ------------------- _get_model_last_update_marker --------------------- *)
\* the first thing that goes wrong in the marker query, in the order the
\* code reaches it: _check_pyadomd (249), the fallback import (261-264),
\* the connection string (266), opening the connection (269), the cursor
\* (272), execute (278), fetchall (279)
MarkerFaults ==
  {"none", "library", "import", "no_connection_string", "connect", "cursor",
   "execute", "fetchall"}

\* a row of the DMV: up to two cells, each a timestamp or 0 (not a datetime)
MarkerRows == SeqsUpTo(Markers, 2)

MarkerEnvs ==
  [fault : MarkerFaults, close_fails : BOOLEAN,
   rows : SeqsUpTo(MarkerRows, MaxRows)]

\* the datetime cells of columns 0 and 1 (lines 283-289)
Stamps(rows) ==
  {rows[i][j] : <<i, j>> \in {p \in (DOMAIN rows) \X {1, 2} :
                                /\ p[2] \in DOMAIN rows[p[1]]
                                /\ rows[p[1]][p[2]] # NoMarker}}

Latest(S) == CHOOSE x \in S : \A y \in S : y <= x

RaisesOnQueryError(env) ==
  IF env.fault \in {"connect", "cursor", "execute", "fetchall"}
    THEN Raises
    ELSE IF env.fault # "none" \/ Stamps(env.rows) = {}
      THEN Returns(NoMarker)
      ELSE Returns(Latest(Stamps(env.rows)))

\* connector.py lines 243-301: every exception is caught at line 299
_get_model_last_update_marker(env) ==
  IF env.fault # "none"
    THEN Returns(NoMarker)
    ELSE IF env.rows = <<>>
      THEN Returns(NoMarker)
      ELSE IF Stamps(env.rows) = {}
        THEN Returns(NoMarker)
        ELSE Returns(Latest(Stamps(env.rows)))

\* a marker query about to be made
MarkerCalls ==
  \E env \in MarkerEnvs :
    call = Pending("_get_model_last_update_marker", <<>>, env)

\* line 130 / 158: the operation asks for the marker and goes on with it
GetModelLastUpdateMarker ==
  /\ call.fn = "_get_model_last_update_marker" /\ ~call.done
  /\ call' = Finished(_get_model_last_update_marker(call.env))
  /\ UNCHANGED <<poolVars, cacheVars, listVars>>

(* ----------------------------- clean_dax_query ------------------------- *)
\* the pieces a caller writes a DAX query from: an operand, the two
\* comparison operators, a markup tag around nothing, a blank
QueryTokens == {"word", "lt", "gt", "tag", "space"}

\* the characters each piece is typed as
Chars(token) ==
  CASE token = "word"  -> <<"a">>
    [] token = "lt"    -> <<" ", "<", " ">>
    [] token = "gt"    -> <<" ", ">", " ">>
    [] token = "tag"   -> <<"<", "t", ">">>
    [] token = "space" -> <<" ">>

RECURSIVE Typed(_)
\* the query string: the pieces one after the other
Typed(tokens) ==
  IF tokens = <<>> THEN <<>> ELSE Chars(Head(tokens)) \o Typed(Tail(tokens))

RECURSIVE NextClose(_, _)
\* position of the first ">" at or after position i, 0 when there is none
NextClose(s, i) ==
  IF i > Len(s) THEN 0 ELSE IF s[i] = ">" THEN i ELSE NextClose(s, i + 1)

RECURSIVE StripTags(_, _)
\* dax_utils.py line 9: re.sub(r"<[^>]+>", "", s) from position i on; a
\* match starts at a "<", takes one or more characters other than ">" and
\* ends at the first ">" after them
StripTags(s, i) ==
  IF i > Len(s)
    THEN <<>>
    ELSE IF s[i] = "<" /\ NextClose(s, i + 1) > i + 1
      THEN StripTags(s, NextClose(s, i + 1) + 1)
      ELSE <<s[i]>> \o StripTags(s, i + 1)

RECURSIVE JoinSplit(_, _)
\* dax_utils.py line 11: " ".join(s.split()) from position i on; a blank
\* stays when a word precedes it and a word follows it immediately
JoinSplit(s, i) ==
  IF i > Len(s)
    THEN <<>>
    ELSE IF \/ s[i] # " "
            \/ /\ \E j \in 1..(i - 1) : s[j] # " "
               /\ i < Len(s)
               /\ s[i + 1] # " "
      THEN <<s[i]>> \o JoinSplit(s, i + 1)
      ELSE JoinSplit(s, i + 1)

\* dax_utils.py lines 6-12
clean_dax_query(dax_query) == JoinSplit(StripTags(dax_query, 1), 1)

\* an execute_dax_query call about to be made on a query somebody wrote
DaxCalls ==
  \E tokens \in SeqsUpTo(QueryTokens, MaxTokens) :
    call = Pending("execute_dax_query", [dax_query |-> Typed(tokens)],
                   [written |-> tokens])

\* query_service.py lines 37-53: the query is cleaned and the cleaned text
\* is what cursor.execute receives
ExecuteCleanedQuery ==
  /\ call.fn = "execute_dax_query" /\ ~call.done
  /\ call' = Finished(Returns(clean_dax_query(call.args.dax_query)))
  /\ UNCHANGED <<poolVars, cacheVars, listVars>>

(* ----------------------------- _make_pool_key -------------------------- *)
\* texts a caller may pass as endpoint, catalog, tenant id or client id: any
\* string, so also one that contains the separator; "" is an absent
\* (None or empty) tenant or client id
KeyTexts == {"", "p", "p|p"}

\* the connection identities of two requests
KeyIdentities ==
  [xmla_endpoint : KeyTexts \ {""}, initial_catalog : KeyTexts \ {""},
   tenant_id : KeyTexts, client_id : KeyTexts]

\* the keys of two requests about to be computed
KeyCalls ==
  \E a \in KeyIdentities, b \in KeyIdentities :
    call = Pending("_make_pool_key", <<a, b>>, <<>>)

\* handlers.py line 130, for each of the two requests
MakePoolKey ==
  /\ call.fn = "_make_pool_key" /\ ~call.done
  /\ call' = Finished(Returns(
       [i \in {1, 2} |->
          _make_pool_key(call.args[i].xmla_endpoint, call.args[i].initial_catalog,
                         call.args[i].tenant_id, call.args[i].client_id)]))
  /\ UNCHANGED <<poolVars, cacheVars, listVars>>

(* ------------------------ get_all_relationships ------------------------ *)
\* the remote model's $SYSTEM.TMSCHEMA_TABLES: table 3 has no name
EngineTables ==
  {[Name |-> "A", ID |-> 1], [Name |-> "B", ID |-> 2], [Name |-> "", ID |-> 3]}

\* the remote model's $SYSTEM.TMSCHEMA_COLUMNS: column 3 belongs to the
\* nameless table, column 4 has no name
EngineColumns ==
  {[ID |-> 1, ExplicitName |-> "colX", TableID |-> 1],
   [ID |-> 2, ExplicitName |-> "colY", TableID |-> 2],
   [ID |-> 3, ExplicitName |-> "colZ", TableID |-> 3],
   [ID |-> 4, ExplicitName |-> "", TableID |-> 1]}

EngineColumn(id) == CHOOSE r \in EngineColumns : r.ID = id

EngineTable(id) == CHOOSE r \in EngineTables : r.ID = id

\* <<FromCardinality, ToCardinality, IsActive, CrossFilteringBehavior>>
RelationshipKinds == {<<2, 1, 1, 1>>, <<1, 2, 0, 2>>}

\* the rows $SYSTEM.TMSCHEMA_RELATIONSHIPS can hold
RawRelationships ==
  {[FromTableID |-> EngineColumn(fc).TableID,
    ToTableID |-> EngineColumn(tc).TableID,
    FromColumnID |-> fc, ToColumnID |-> tc,
    IsActive |-> k[3], CrossFilteringBehavior |-> k[4],
    FromCardinality |-> k[1], ToCardinality |-> k[2]] :
     fc \in {r.ID : r \in EngineColumns}, tc \in {r.ID : r \in EngineColumns},
     k \in RelationshipKinds}

\* lines 117-123
table_id_to_name ==
  [id \in {r.ID : r \in {q \in EngineTables : q.Name # ""}} |->
     EngineTable(id).Name]

\* lines 132-136
column_id_to_info ==
  [id \in {r.ID : r \in {q \in EngineColumns : q.ID # 0 /\ q.ExplicitName # ""}}
     |-> [name |-> EngineColumn(id).ExplicitName,
          table_id |-> EngineColumn(id).TableID]]

\* lines 177-187: the view stored for the from table
FromSideView(rel, from_table_name, to_table_name, from_col_name, to_col_name) ==
  [relatedTable |-> to_table_name,
   fromColumn |-> from_col_name,
   toColumn |-> to_col_name,
   cardinality |-> _format_cardinality(rel.FromCardinality, rel.ToCardinality),
   isActive |-> rel.IsActive # 0,
   crossFilterDirection |-> _format_cross_filter(rel.CrossFilteringBehavior),
   relationshipType |-> "Many-to-One"]

ToSideViewUnswapped(rel, from_table_name, to_table_name, from_col_name, to_col_name) ==
  [relatedTable |-> from_table_name,
   fromColumn |-> from_col_name,
   toColumn |-> to_col_name,
   cardinality |-> _format_cardinality(rel.FromCardinality, rel.ToCardinality),
   isActive |-> rel.IsActive # 0,
   crossFilterDirection |-> _format_cross_filter(rel.CrossFilteringBehavior),
   relationshipType |-> "One-to-Many"]

\* lines 191-201: the view stored for the to table
ToSideView(rel, from_table_name, to_table_name, from_col_name, to_col_name) ==
  [relatedTable |-> from_table_name,
   fromColumn |-> to_col_name,
   toColumn |-> from_col_name,
   cardinality |-> _format_cardinality(rel.ToCardinality, rel.FromCardinality),
   isActive |-> rel.IsActive # 0,
   crossFilterDirection |-> _format_cross_filter(rel.CrossFilteringBehavior),
   relationshipType |-> "One-to-Many"]

\* table_relationships[name].append(view) if name in table_relationships
AppendIfRequested(table_relationships, name, view) ==
  IF name \in DOMAIN table_relationships
    THEN [table_relationships EXCEPT ![name] = Append(@, view)]
    ELSE table_relationships

FromSideOnly(table_relationships, rel) ==
  LET from_table_name == Get(table_id_to_name, rel.FromTableID, "")
      to_table_name == Get(table_id_to_name, rel.ToTableID, "")
  IN
  IF from_table_name = "" \/ to_table_name = "" THEN table_relationships
  ELSE IF \/ rel.FromColumnID \notin DOMAIN column_id_to_info
          \/ rel.ToColumnID \notin DOMAIN column_id_to_info
    THEN table_relationships
    ELSE AppendIfRequested(table_relationships, from_table_name,
           FromSideView(rel, from_table_name, to_table_name,
                        column_id_to_info[rel.FromColumnID].name,
                        column_id_to_info[rel.ToColumnID].name))

\* lines 155-201: one turn of the loop over all_relationships
AddRelationship(table_relationships, rel) ==
  LET from_table_name == Get(table_id_to_name, rel.FromTableID, "")
      to_table_name == Get(table_id_to_name, rel.ToTableID, "")
  IN
  IF from_table_name = "" \/ to_table_name = "" THEN table_relationships
  ELSE IF \/ rel.FromColumnID \notin DOMAIN column_id_to_info
          \/ rel.ToColumnID \notin DOMAIN column_id_to_info
    THEN table_relationships
    ELSE LET from_col_name == column_id_to_info[rel.FromColumnID].name
             to_col_name == column_id_to_info[rel.ToColumnID].name
         IN AppendIfRequested(
              AppendIfRequested(table_relationships, from_table_name,
                FromSideView(rel, from_table_name, to_table_name,
                             from_col_name, to_col_name)),
              to_table_name,
              ToSideView(rel, from_table_name, to_table_name,
                         from_col_name, to_col_name))

RECURSIVE ResolveAll(_, _)
\* lines 152-203: the loop
ResolveAll(table_relationships, all_relationships) ==
  IF all_relationships = <<>>
    THEN table_relationships
    ELSE ResolveAll(AddRelationship(table_relationships, Head(all_relationships)),
                    Tail(all_relationships))

\* the row the per-table query's joins make of a relationship (lines 44-59);
\* the engine reports a missing name as ""
JoinedRow(rel) ==
  <<EngineTable(EngineColumn(rel.FromColumnID).TableID).Name,
    EngineColumn(rel.FromColumnID).ExplicitName,
    EngineTable(EngineColumn(rel.ToColumnID).TableID).Name,
    EngineColumn(rel.ToColumnID).ExplicitName,
    rel.FromCardinality, rel.ToCardinality, rel.CrossFilteringBehavior>>

\* lines 66-96: the dictionary built from one row, seen from table_name
PerTableView(row, t) ==
  IF row[1] = t
    THEN [direction |-> "outgoing", related_table |-> row[3],
          local_column |-> row[2], related_column |-> row[4],
          cardinality |-> _format_cardinality(row[5], row[6]),
          cross_filter |-> _format_cross_filter(row[7])]
    ELSE [direction |-> "incoming", related_table |-> row[1],
          local_column |-> row[4], related_column |-> row[2],
          cardinality |-> _format_cardinality(row[5], row[6]),
          cross_filter |-> _format_cross_filter(row[7])]

RECURSIVE PerTableViews(_, _)
\* WHERE ft.[Name] = table_name OR tt.[Name] = table_name, then lines 65-98
PerTableViews(t, all_relationships) ==
  IF all_relationships = <<>> THEN <<>>
  ELSE LET row == JoinedRow(Head(all_relationships))
           rest == PerTableViews(t, Tail(all_relationships))
       IN IF row[1] = t \/ row[3] = t
            THEN <<PerTableView(row, t)>> \o rest
            ELSE rest

\* what can go wrong in get_table_relationships: the connected check (33-34)
\* and _check_pyadomd (36) raise, an engine error is caught (100-102)
TableFaults == {"none", "not_connected", "library", "query"}

\* lines 31-102
get_table_relationships(t, all_relationships, fault) ==
  IF fault \in {"not_connected", "library"} THEN Raises
  ELSE IF fault = "query" THEN Returns(<<>>)
  ELSE Returns(PerTableViews(t, all_relationships))

FallbackAllOrNothing(table_names, all_relationships, faults) ==
  [t \in table_names |->
     IF \E u \in table_names : faults[u] # "none"
       THEN <<>>
       ELSE get_table_relationships(t, all_relationships, faults[t]).value]

\* lines 208-214: the per-table path
Fallback(table_names, all_relationships, faults) ==
  [t \in table_names |->
     LET r == get_table_relationships(t, all_relationships, faults[t]) IN
     IF r.raised THEN <<>> ELSE r.value]

\* lines 104-214
get_all_relationships(table_names, all_relationships, env) ==
  IF ~env.batch_fails
    THEN Returns(ResolveAll([t \in table_names |-> <<>>], all_relationships))
    ELSE Returns(Fallback(table_names, all_relationships, env.faults))

RequestedTables == SUBSET {"A", "B"}

RelationshipEnvs(table_names) ==
  {[batch_fails |-> FALSE, faults |-> [t \in table_names |-> "none"]]}
  \cup {[batch_fails |-> TRUE, faults |-> f] : f \in [table_names -> TableFaults]}

\* a get_all_relationships call about to be made on some remote model
RelationshipCalls ==
  \E n \in RequestedTables, rs \in SeqsUpTo(RawRelationships, MaxRels) :
    \E env \in RelationshipEnvs(n) :
      call = Pending("get_all_relationships",
                     [table_names |-> n, all_relationships |-> rs], env)

GetAllRelationships ==
  /\ call.fn = "get_all_relationships" /\ ~call.done
  /\ call' = Finished(get_all_relationships(call.args.table_names,
                                            call.args.all_relationships,
                                            call.env))
  /\ UNCHANGED <<poolVars, cacheVars, listVars>>

ServiceInit ==
  FormatCalls \/ MarkerCalls \/ RelationshipCalls \/ DaxCalls \/ KeyCalls

ServiceNext ==
  \/ FormatCardinality
  \/ FormatCrossFilter
  \/ GetModelLastUpdateMarker
  \/ GetAllRelationships
  \/ ExecuteCleanedQuery
  \/ MakePoolKey

(* ======================== handle_list_tables =========================== *)
NoListResult == [fetched |-> FALSE, marker |-> NoMarker, served |-> NoConnector]

\* PowerBIHandlers.connector (handlers.py line 21): the handlers' own
\* connector, built in __init__ and never connected or pooled
self_connector == MaxCalls + 1

\* no engine operation has run for the request yet
NoRun ==
  [borrowed |-> NoConnector, schema |-> NoConnector, sample |-> NoConnector,
   error |-> ""]

ListStart ==
  /\ h_pc = "idle"
  /\ h_arguments = NoArguments
  /\ h_calls = 0
  /\ caches = [x \in ConnectorIds |-> NoEntry]
  /\ h_result = NoListResult
  /\ entry_marker = [k \in PoolKeys |-> NoTime]
  /\ h_ran_on = NoRun

\* f"{xmla_endpoint}|{initial_catalog}": the model_key connect() gives the
\* connector (connector.py line 100)
ModelKeyOf(a) == a.xmla_endpoint \o "|" \o a.initial_catalog

\* handlers.py lines 163-171: a list-tables request arrives with its
\* arguments and asks the pool for a connector
HandleListTablesBegin(c) ==
  /\ h_pc = "idle"
  /\ pc[c] \in Resting
  /\ calls < MaxCalls
  /\ \E a \in Arguments : h_arguments' = a
  /\ h_calls' = calls
  /\ h_pc' = "connect"
  /\ h_result' = NoListResult
  /\ UNCHANGED <<caches, entry_marker>>
  /\ UNCHANGED h_ran_on
  /\ UNCHANGED <<poolVars, cacheVars, svcVars>>

\* line 171: getOrCreate is entered with the request's arguments
ListGetOrCreateBegin(c) ==
  /\ h_pc = "connect" /\ calls = h_calls
  /\ ~MissingParams(h_arguments)
  /\ GetOrCreateBegin(c)
  /\ arguments'[c] = h_arguments

\* line 171 with a required parameter absent
ListGetOrCreateMissingParams(c) ==
  /\ h_pc = "connect" /\ calls = h_calls
  /\ MissingParams(h_arguments)
  /\ GetOrCreateMissingParams(c)

\* lines 196-198: getOrCreate raised, the request answers with the error
HandleListTablesError(c) ==
  /\ h_pc = "connect" /\ calls = h_calls + 1
  /\ pc[c] = "raised" \/ (pc[c] = "idle" /\ MissingParams(h_arguments))
  /\ h_pc' = "idle"
  /\ UNCHANGED <<h_arguments, h_calls, caches, h_result, entry_marker>>
  /\ UNCHANGED h_ran_on
  /\ UNCHANGED <<poolVars, cacheVars, svcVars>>

\* line 172: discover_tables (connector.py 125-151) on the connector that
\* getOrCreate returned, against that connector's own _model_cache
HandleListTablesDiscover(c) ==
  LET key == KeyOf(h_arguments)
      x   == lastConn[key]
      mk  == ModelKeyOf(h_arguments)
  IN
  /\ h_pc = "connect" /\ calls = h_calls + 1
  /\ pc[c] = "idle" /\ ~MissingParams(h_arguments)
  /\ \E m \in Markers, fetch_ok \in BOOLEAN :
       IF /\ mk \in DOMAIN caches[x]
          /\ caches[x][mk].tables # NoValue
          /\ _is_cache_valid(caches[x][mk].version, m)
         THEN /\ h_result' = [fetched |-> FALSE, marker |-> m, served |-> x]
              /\ UNCHANGED <<caches, entry_marker>>
         ELSE /\ h_result' = [fetched |-> TRUE, marker |-> m, served |-> x]
              /\ IF fetch_ok
                   THEN /\ caches' =
                             [caches EXCEPT ![x] =
                                PutEntry(caches[x], mk,
                                  WithTables(SetDefault(caches[x], mk),
                                             [model |-> mk, what |-> "tables",
                                              seen |-> m], m))]
                        /\ entry_marker' = [entry_marker EXCEPT ![key] = m]
                   ELSE UNCHANGED <<caches, entry_marker>>
  /\ h_pc' = "idle"
  /\ UNCHANGED <<h_arguments, h_calls>>
  /\ UNCHANGED h_ran_on
  /\ UNCHANGED <<poolVars, cacheVars, svcVars>>

ListNext ==
  \/ Tick
  \/ \E c \in SeqCallers : HandleListTablesBegin(c)
  \/ \E c \in SeqCallers : ListGetOrCreateBegin(c)
  \/ \E c \in SeqCallers : ListGetOrCreateMissingParams(c)
  \/ \E c \in Callers : Lookup(c)
  \/ \E c \in Callers : Dispatch(c)
  \/ \E c \in Callers : ConnectSucceeds(c)
  \/ \E c \in Callers : ConnectFails(c)
  \/ \E c \in Callers : Store(c)
  \/ \E c \in SeqCallers : HandleListTablesError(c)
  \/ \E c \in SeqCallers : HandleListTablesDiscover(c)

(* ======================= handle_get_table_info ========================= *)
\* handlers.py lines 200-207: a table-info request arrives with a table
\* name and its connection arguments, and asks the pool for a connector
HandleGetTableInfoBegin(c) ==
  /\ h_pc = "idle"
  /\ pc[c] \in Resting
  /\ calls < MaxCalls
  /\ \E a \in Arguments : h_arguments' = a
  /\ h_calls' = calls
  /\ h_pc' = "info_connect"
  /\ h_ran_on' = NoRun
  /\ UNCHANGED <<caches, h_result, entry_marker>>
  /\ UNCHANGED <<poolVars, cacheVars, svcVars>>

\* line 207: getOrCreate is entered with the request's arguments
InfoGetOrCreateBegin(c) ==
  /\ h_pc = "info_connect" /\ calls = h_calls
  /\ ~MissingParams(h_arguments)
  /\ GetOrCreateBegin(c)
  /\ arguments'[c] = h_arguments

\* line 207 with a required parameter absent
InfoGetOrCreateMissingParams(c) ==
  /\ h_pc = "info_connect" /\ calls = h_calls
  /\ MissingParams(h_arguments)
  /\ GetOrCreateMissingParams(c)

\* lines 245-247: getOrCreate raised, the request answers with the error
HandleGetTableInfoError(c) ==
  /\ h_pc = "info_connect" /\ calls = h_calls + 1
  /\ pc[c] = "raised" \/ (pc[c] = "idle" /\ MissingParams(h_arguments))
  /\ h_pc' = "idle"
  /\ UNCHANGED <<h_arguments, h_calls, caches, h_result, entry_marker, h_ran_on>>
  /\ UNCHANGED <<poolVars, cacheVars, svcVars>>

\* what the schema lookup can come back with: a schema of one of the two
\* table types, or an exception (lines 210, 227, 245)
SchemaOutcomes == {"data_table", "measure_table", "raised"}

\* line 208: connector.get_table_schema on the connector getOrCreate returned
HandleGetTableInfoSchema(c) ==
  LET x == lastConn[KeyOf(h_arguments)] IN
  /\ h_pc = "info_connect" /\ calls = h_calls + 1
  /\ pc[c] = "idle" /\ ~MissingParams(h_arguments)
  /\ \E type \in SchemaOutcomes :
       /\ h_ran_on' = [borrowed |-> x, schema |-> x, sample |-> NoConnector,
                       error |-> IF type = "raised" THEN "Failed to get schema"
                                                    ELSE ""]
       /\ h_pc' = IF type = "data_table" THEN "info_sample" ELSE "idle"
  /\ UNCHANGED <<h_arguments, h_calls, caches, h_result, entry_marker>>
  /\ UNCHANGED <<poolVars, cacheVars, svcVars>>

\* lines 210-213: self.connector.get_sample_data(table_name, 5), which is
\* execute_dax_query on the handlers' own connector (query_service.py 32-35,
\* 85-87); lines 245-247 turn what it raises into the answer
HandleGetTableInfoSample(c) ==
  /\ h_pc = "info_sample"
  /\ h_ran_on' = [h_ran_on EXCEPT
                    !.sample = self_connector,
                    !.error = EntryChecks(self_connector \in connected, TRUE)]
  /\ h_pc' = "idle"
  /\ UNCHANGED <<h_arguments, h_calls, caches, h_result, entry_marker>>
  /\ UNCHANGED <<poolVars, cacheVars, svcVars>>

InfoNext ==
  \/ Tick
  \/ \E c \in SeqCallers : HandleGetTableInfoBegin(c)
  \/ \E c \in SeqCallers : InfoGetOrCreateBegin(c)
  \/ \E c \in SeqCallers : InfoGetOrCreateMissingParams(c)
  \/ \E c \in Callers : Lookup(c)
  \/ \E c \in Callers : Dispatch(c)
  \/ \E c \in Callers : ConnectSucceeds(c)
  \/ \E c \in Callers : ConnectFails(c)
  \/ \E c \in Callers : Store(c)
  \/ \E c \in SeqCallers : HandleGetTableInfoError(c)
  \/ \E c \in SeqCallers : HandleGetTableInfoSchema(c)
  \/ \E c \in SeqCallers : HandleGetTableInfoSample(c)

(* -------------------------- specifications ----------------------------- *)
\* the pool alone: the cache of the connector observed stays empty
PoolInit == PoolStart /\ CacheAtRest /\ ServiceStart /\ ListStart

\* the cache of one connector alone: no getOrCreate call is made
CacheInit ==
  /\ CacheStart /\ PoolStart /\ connection_ttl_seconds = 1
  /\ ServiceStart /\ ListStart

\* the service functions alone, one call each
ServiceSpecInit ==
  /\ PoolStart /\ connection_ttl_seconds = 1
  /\ CacheAtRest /\ ListStart
  /\ ServiceInit

ServiceSpec == ServiceSpecInit /\ [][ServiceNext]_vars

\* list-tables requests, one at a time, through the pool
ListSpec == PoolInit /\ [][ListNext]_vars

\* concurrent callers
PoolSpec == PoolInit /\ [][PoolNext]_vars

\* sequential callers
PoolSeqSpec == PoolInit /\ [][PoolSeqNext]_vars

\* concurrent cache operations on one connector
CacheSpec == CacheInit /\ [][CacheNext]_vars

\* one cache operation at a time on one connector
CacheSeqSpec == CacheInit /\ [][CacheSeqNext]_vars

\* a getOrCreate call in flight while another caller runs a cache operation
\* on a connected connector
LockInit == CacheInit /\ self_connected

CacheCallers == Callers \ SeqCallers

LockNext ==
  \/ \E c \in SeqCallers : GetOrCreateBegin(c)
  \/ \E c \in SeqCallers : Lookup(c)
  \/ \E c \in SeqCallers : Dispatch(c)
  \/ \E c \in SeqCallers : ConnectSucceeds(c)
  \/ \E c \in SeqCallers : ConnectFails(c)
  \/ \E c \in SeqCallers : Store(c)
  \/ \E c \in CacheCallers : CacheOpBegin(c)
  \/ \E c \in CacheCallers : GetMarker(c)
  \/ \E c \in CacheCallers : CheckCache(c)
  \/ \E c \in CacheCallers : FetchSucceeds(c)
  \/ \E c \in CacheCallers : FetchFails(c)
  \/ \E c \in CacheCallers : WriteCache(c)

LockSpec == LockInit /\ [][LockNext]_vars

\* one cache operation at a time, the outcomes of a schema fetch told apart
SchemaNext ==
  \/ CacheSeqNext
  \/ \E c \in Callers : FetchReturnsError(c)

SchemaSpec == CacheInit /\ [][SchemaNext]_vars

\* table-info requests, one at a time, through the pool
InfoSpec == PoolInit /\ [][InfoNext]_vars

\* concurrent callers whose calls all fall within one instant of the clock
RaceNext ==
  \/ \E c \in Callers : GetOrCreateMissingParams(c)
  \/ \E c \in Callers : GetOrCreateBegin(c)
  \/ \E c \in Callers : Lookup(c)
  \/ \E c \in Callers : Dispatch(c)
  \/ \E c \in Callers : ConnectSucceeds(c)
  \/ \E c \in Callers : ConnectFails(c)
  \/ \E c \in Callers : Store(c)

RaceSpec == PoolInit /\ [][RaceNext]_vars

Spec == PoolSpec

(* ======================= claims: connector pool ======================== *)
\* the caller is inside getOrCreate (or its exception is on its way up) and
\* past the first critical section
PastLookup(c) == pc[c] \in {"dispatch", "connect", "store", "raised"}

\* the step is caller c's first critical section
IsLookupStep(c) == pc[c] = "lookup" /\ pc'[c] = "dispatch"

\* the step is caller c's connect raising
IsFailedConnectStep(c) == pc[c] = "connect" /\ pc'[c] = "raised"

\* the step is caller c returning its connector
IsReturnStep(c) == pc[c] \in {"dispatch", "store"} /\ pc'[c] = "idle"

\* C1: with one request at a time, a call for a key that starts no later
\* than TTL after the previous call for that key (which returned a connector)
\* finds that connector in the pool, invokes no connect and returns it.
C1_ReuseWithinTTL ==
  [][\A c \in Callers :
       LET key == KeyOf(arguments[c]) IN
       /\ (/\ IsLookupStep(c)
           /\ lastServed[key] # NoTime
           /\ now[c] - lastServed[key] <= connection_ttl_seconds)
          => /\ connector'[c] = lastConn[key]
             /\ connector'[c] # NoConnector
             /\ connector'[c] \in connected
       /\ (/\ pc[c] = "dispatch"
           /\ pc'[c] # "dispatch"
           /\ connector[c] # NoConnector
           /\ connector[c] \in connected)
          => /\ IsReturnStep(c)
             /\ lastConn'[key] = connector[c]
             /\ created' = created]_vars

\* a third call in a row is about to return the pooled connector, found
\* exactly TTL after the second call refreshed it
C1_Witness ==
  \E c \in Callers :
    LET key == KeyOf(arguments[c]) IN
    /\ pc[c] = "dispatch"
    /\ calls = 3 /\ created = 1
    /\ key \in DOMAIN prePool[c]
    /\ now[c] - prePool[c][key].last_used = connection_ttl_seconds
    /\ now[c] - lastServed[key] = connection_ttl_seconds
    /\ connector[c] = prePool[c][key].connector
    /\ connector[c] \in connected
    /\ prePool[c][key].last_used > 0

\* C2: a call whose lookup finds its key's entry unused for more than TTL
\* drops that entry, builds a new connector, invokes connect on it and, when
\* it returns, returns the new connector, never the old one.
C2_ExpiredEntryReconnects ==
  [][\A c \in Callers :
       LET key == KeyOf(arguments[c]) IN
       (/\ key \in DOMAIN prePool[c]
        /\ now[c] - prePool[c][key].last_used > connection_ttl_seconds)
       => /\ pc[c] = "dispatch" => connector[c] = NoConnector
          /\ pc[c] = "dispatch" /\ pc'[c] # "dispatch"
               => pc'[c] = "connect" /\ connector'[c] = created + 1
          /\ pc[c] \in {"connect", "store", "raised"}
               => is_new[c] /\ connector[c] \notin
                     {prePool[c][k].connector : k \in DOMAIN prePool[c]}
          /\ IsReturnStep(c)
               => /\ pc[c] = "store"
                  /\ lastConn'[key] = connector[c]
                  /\ connector_pool'[key].connector = connector[c]
          /\ key \in DOMAIN connector_pool
               => connector_pool[key].connector # prePool[c][key].connector]_vars

\* a call that found its entry expired has connected a new connector and is
\* about to store and return it
C2_Witness ==
  \E c \in Callers :
    LET key == KeyOf(arguments[c]) IN
    /\ pc[c] = "store" /\ is_new[c]
    /\ connector[c] \in connected
    /\ key \in DOMAIN prePool[c]
    /\ now[c] - prePool[c][key].last_used > connection_ttl_seconds
    /\ prePool[c][key].connector \in connected

\* the entries of a pool map that are not older than TTL at time t
FreshPart(pool, t) ==
  [k \in {j \in DOMAIN pool : t - pool[j].last_used <= connection_ttl_seconds}
     |-> pool[k]]

\* C3 as stated: when connect fails, the pool map after the call is the pool
\* map before the call.
C3_FailedConnectPoolIdentical ==
  [][\A c \in Callers :
       IsFailedConnectStep(c) => connector_pool' = prePool[c]]_vars

\* C3 amended: when connect fails the call raises, the failing connect leaves
\* the pool map as it was, no entry exists for the key, and the map is the
\* map before the call less the entries the call's own sweep found expired.
C3_FailedConnectStoresNothing ==
  [][\A c \in Callers :
       IsFailedConnectStep(c)
       => /\ connector_pool' = connector_pool
          /\ KeyOf(arguments[c]) \notin DOMAIN connector_pool'
          /\ connector_pool' = FreshPart(prePool[c], now[c])]_vars

\* a failed call whose sweep had removed an expired entry of another key
C3_Witness ==
  \E c \in Callers :
    /\ pc[c] = "raised"
    /\ connector_pool = FreshPart(prePool[c], now[c])
    /\ connector_pool # prePool[c]
    /\ KeyOf(arguments[c]) \notin DOMAIN prePool[c]

\* the connected connectors that exist for key k: the pooled one and those
\* held by callers still inside getOrCreate
LiveSessions(k) ==
  {connector_pool[j].connector : j \in {k} \cap DOMAIN connector_pool}
  \cup {connector[c] : c \in {d \in Callers :
                                /\ pc[d] \in {"dispatch", "connect", "store"}
                                /\ KeyOf(arguments[d]) = k
                                /\ connector[d] \in connected}}

\* C4: at most one live session per key, under every interleaving.
C4_AtMostOneLiveSession ==
  \A k \in PoolKeys : Cardinality(LiveSessions(k)) <= 1

\* C5: a lookup removes exactly the entries that are older than TTL at the
\* caller's `now` (of every key), keeps the others, leaves no entry older
\* than TTL behind, and no other step removes an entry.
C5_LazySweep ==
  [][/\ \A c \in Callers :
          IsLookupStep(c)
          => /\ DOMAIN connector_pool' =
                  {k \in DOMAIN connector_pool :
                     now[c] - connector_pool[k].last_used <= connection_ttl_seconds}
             /\ \A k \in DOMAIN connector_pool' :
                  /\ now[c] - connector_pool'[k].last_used <= connection_ttl_seconds
                  /\ connector_pool'[k].connector = connector_pool[k].connector
     /\ (DOMAIN connector_pool \ DOMAIN connector_pool' # {})
          => \E c \in Callers : IsLookupStep(c)]_vars

\* a lookup has removed another key's expired entry and kept its own key's
\* entry, which was exactly TTL old
C5_Witness ==
  \E c \in Callers :
    LET key == KeyOf(arguments[c]) IN
    /\ pc[c] = "dispatch"
    /\ \E k \in DOMAIN prePool[c] \ {key} :
         /\ now[c] - prePool[c][k].last_used > connection_ttl_seconds
         /\ k \notin DOMAIN connector_pool
    /\ key \in DOMAIN prePool[c]
    /\ now[c] - prePool[c][key].last_used = connection_ttl_seconds
    /\ key \in DOMAIN connector_pool
    /\ connector_pool[key].last_used = now[c]

(* ======================= claims: metadata cache ======================== *)
\* the step is caller c's first critical section / a hit / a miss
IsCheckStep(c) == cpc[c] = "check" /\ cpc'[c] # "check"

IsHitStep(c) == cpc[c] = "check" /\ cpc'[c] = "returned"

IsMissStep(c) == cpc[c] = "check" /\ cpc'[c] = "fetch"

\* the step is caller c's second critical section and return
IsWriteStep(c) == cpc[c] = "write" /\ cpc'[c] = "returned"

\* the slot of the cache map `cache` that operation o on table t reads under
\* key k: is a value cached, with which stored marker, and which value
SlotPresent(cache, k, o, t) ==
  /\ k \in DOMAIN cache
  /\ IF o = "tables" THEN cache[k].tables # NoValue
                     ELSE t \in DOMAIN cache[k].table_schemas

SlotMarker(cache, k, o, t) ==
  IF o = "tables" THEN cache[k].version ELSE cache[k].table_schemas[t].version

SlotData(cache, k, o, t) ==
  IF o = "tables" THEN cache[k].tables ELSE cache[k].table_schemas[t].data

\* the validity table of the cache, row by row
ValidityTable(cached, current) ==
  CASE cached = NoMarker /\ current = NoMarker -> TRUE
    [] cached = NoMarker /\ current # NoMarker -> FALSE
    [] cached # NoMarker /\ current = NoMarker -> TRUE
    [] OTHER -> cached >= current

\* C6: _is_cache_valid equals the validity table on every pair of markers,
\* and every first critical section that finds a cached value decides hit or
\* miss by the table's row for (stored marker, current marker).
C6_ValidityTable ==
  [][/\ \A a \in Markers, b \in Markers :
          _is_cache_valid(a, b) = ValidityTable(a, b)
     /\ \A c \in Callers :
          (/\ IsCheckStep(c)
           /\ SlotPresent(_model_cache, cache_key[c], op[c], table_name[c]))
          => /\ IsHitStep(c) =
                  ValidityTable(SlotMarker(_model_cache, cache_key[c], op[c],
                                           table_name[c]),
                                current_marker[c])
             /\ validity'[c] = IF IsHitStep(c) THEN "valid" ELSE "invalid"]_vars

\* a known stored marker older than a known current marker was judged invalid
C6_Witness ==
  \E c \in Callers :
    /\ cpc[c] = "fetch" /\ validity[c] = "invalid"
    /\ cached_version[c] # NoMarker /\ current_marker[c] # NoMarker
    /\ cached_version[c] < current_marker[c]

\* C7: no operation returns a cached value whose stored marker is known and
\* strictly less than the known current marker of the call; such a call
\* misses, fetches, stores the fetched value with the current marker and
\* returns the fetched value.
C7_StalenessBound ==
  [][\A c \in Callers :
       LET k == cache_key[c]
           o == op[c]
           t == table_name[c]
           older == /\ SlotPresent(_model_cache, k, o, t)
                    /\ SlotMarker(_model_cache, k, o, t) # NoMarker
                    /\ current_marker[c] # NoMarker
                    /\ SlotMarker(_model_cache, k, o, t) < current_marker[c]
       IN
       /\ IsHitStep(c) => ~older
       /\ IsCheckStep(c) /\ older => IsMissStep(c)
       /\ IsWriteStep(c)
            => /\ result'[c] = fetched[c]
               /\ fetched[c].seen = current_marker[c]
               /\ SlotPresent(_model_cache', k, o, t)
               /\ SlotData(_model_cache', k, o, t) = fetched[c]
               /\ SlotMarker(_model_cache', k, o, t) = current_marker[c]]_vars

\* get_table_schema found its schema stored under an older marker, fetched
\* again and is about to store and return the new schema
C7_Witness ==
  \E c \in Callers :
    /\ cpc[c] = "write" /\ op[c] = "schema" /\ validity[c] = "invalid"
    /\ cached_version[c] # NoMarker
    /\ cached_version[c] < current_marker[c]
    /\ fetched[c].seen = current_marker[c]
    /\ SlotData(_model_cache, cache_key[c], op[c], table_name[c]).seen
         = cached_version[c]

\* C8: a discover_tables call that obtains a known marker while the cached
\* list is one that was fetched under an unknown marker fetches again
\* instead of returning that list.
C8_UnknownMarkerListRefreshed ==
  [][\A c \in Callers :
       (/\ IsCheckStep(c)
        /\ op[c] = "tables"
        /\ current_marker[c] # NoMarker
        /\ SlotPresent(_model_cache, cache_key[c], "tables", "")
        /\ _model_cache[cache_key[c]].tables.seen = NoMarker)
       => IsMissStep(c)]_vars

\* C9: a discover_tables call with a known marker, on a cache whose list (if
\* any) has a known stored marker, fetches exactly when no list is cached or
\* the current marker is greater than the stored one; a hit returns the
\* cached list and leaves the cache alone, a miss returns what it fetched.
C9_FetchIffAbsentOrAdvanced ==
  [][\A c \in Callers :
       LET k == cache_key[c]
           listed == SlotPresent(_model_cache, k, "tables", "")
       IN
       op[c] = "tables"
       => /\ (/\ IsCheckStep(c)
              /\ current_marker[c] # NoMarker
              /\ listed => _model_cache[k].version # NoMarker)
             => (IsMissStep(c) <=>
                   (~listed \/ current_marker[c] > _model_cache[k].version))
          /\ IsHitStep(c)
               => /\ result'[c] = _model_cache[k].tables
                  /\ _model_cache' = _model_cache
          /\ IsWriteStep(c)
               => /\ result'[c] = fetched[c]
                  /\ _model_cache'[k].tables = fetched[c]
                  /\ _model_cache'[k].version = current_marker[c]]_vars

\* the marker advanced: a second discover_tables has fetched a second list
\* and is about to store and return it in place of the first
C9_Witness ==
  \E c \in Callers :
    /\ cpc[c] = "write" /\ op[c] = "tables" /\ validity[c] = "invalid"
    /\ cached_version[c] # NoMarker
    /\ current_marker[c] > cached_version[c]
    /\ _model_cache[cache_key[c]].tables.seen = cached_version[c]
    /\ fetched[c] # _model_cache[cache_key[c]].tables

\* C10: a cache write changes the entry of the call's own model key only,
\* no other step changes the cache, and a hit returns a value that was
\* fetched from the model the connector points at.
C10_PerModelIsolation ==
  [][/\ \A c \in Callers :
          /\ IsWriteStep(c)
               => /\ cache_key[c] = EngineModel(model_key, connection_string)
                  /\ \A k \in DOMAIN _model_cache \ {cache_key[c]} :
                       /\ k \in DOMAIN _model_cache'
                       /\ _model_cache'[k] = _model_cache[k]
          /\ IsHitStep(c)
               => /\ result'[c].model = EngineModel(model_key, connection_string)
                  /\ result'[c] = SlotData(_model_cache,
                                           EngineModel(model_key, connection_string),
                                           op[c], table_name[c])
     /\ (_model_cache' # _model_cache) => \E c \in Callers : IsWriteStep(c)]_vars

\* with the lists of two models cached, the third operation was served
\* model A's own list from the cache
C10_Witness ==
  \E c \in Callers :
    /\ cpc[c] = "returned" /\ validity[c] = "valid"
    /\ cache_calls = 3
    /\ model_key = "e1|A"
    /\ "e1|A" \in DOMAIN _model_cache
    /\ result[c] = _model_cache["e1|A"].tables
    /\ result[c].model = "e1|A"
    /\ "e1|B" \in DOMAIN _model_cache
    /\ _model_cache["e1|B"].tables.model = "e1|B"

\* C11: get_table_schema(T) leaves every other table's schema entry of the
\* model as it was, data and stored marker, when it hits and when it misses
\* and stores; the only entry it may add or replace is T's.
C11_OtherSchemasUntouched ==
  [][\A c \in Callers :
       LET k == cache_key[c]
           before == IF k \in DOMAIN _model_cache
                       THEN _model_cache[k].table_schemas ELSE NoEntry
       IN
       (op[c] = "schema" /\ (IsCheckStep(c) \/ IsWriteStep(c)))
       => /\ \A t \in DOMAIN before \ {table_name[c]} :
               /\ t \in DOMAIN _model_cache'[k].table_schemas
               /\ _model_cache'[k].table_schemas[t].data = before[t].data
               /\ _model_cache'[k].table_schemas[t].version = before[t].version
          /\ IsWriteStep(c)
               => /\ DOMAIN _model_cache'[k].table_schemas
                       = DOMAIN before \cup {table_name[c]}
                  /\ _model_cache'[k].table_schemas[table_name[c]]
                       = [data |-> fetched[c], version |-> current_marker[c]]]_vars

\* get_table_schema("T1") has stored T1's schema under a newer marker while
\* T2's schema is still the one fetched, and marked, earlier
C11_Witness ==
  \E c \in Callers, k \in DOMAIN _model_cache :
    /\ cpc[c] = "returned" /\ result[c].what = "T1"
    /\ DOMAIN _model_cache[k].table_schemas = {"T1", "T2"}
    /\ _model_cache[k].table_schemas["T1"].data = result[c]
    /\ _model_cache[k].table_schemas["T1"].version = result[c].seen
    /\ _model_cache[k].table_schemas["T2"].version
         < _model_cache[k].table_schemas["T1"].version
    /\ _model_cache[k].table_schemas["T2"].data.seen
         = _model_cache[k].table_schemas["T2"].version
    /\ _model_cache[k].table_schemas["T2"].data.what = "T2"
\* C19: discover_tables, get_table_schema and execute_dax_query called on a
\* connector that is not connected raise "Not connected to Power BI", with
\* the client library present or absent, return nothing and leave the cache
\* as it was.
C19_NotConnectedRaisesFirst ==
  [][(cache_calls' = cache_calls + 1 /\ ~self_connected)
     => /\ _model_cache' = _model_cache
        /\ \E c \in Callers :
             /\ cpc[c] \in CacheResting
             /\ cpc'[c] = "raised"
             /\ op'[c] \in Operations
             /\ error'[c] = "Not connected to Power BI"
             /\ result'[c] = NoValue
             /\ fetched'[c] = NoValue]_vars

\* execute_dax_query has raised on a connector that is not connected, after
\* two earlier operations on it had raised too
C19_Witness ==
  \E c \in Callers :
    /\ ~self_connected
    /\ cache_calls = 3
    /\ cpc[c] = "raised" /\ op[c] = "dax"
    /\ error[c] = "Not connected to Power BI"
    /\ _model_cache = NoEntry
\* field values the key derivation is tried on
KeyParts == {"", "p", "q"}

\* C20: the pool key is endpoint, catalog, tenant id and client id joined in
\* that order and nothing else; parameters that differ only in the client
\* secret have the same key, every pooled key is such a four-field key, and
\* a call that starts within TTL of the last returned call of its identity
\* gets that call's connector without a connect, whatever its secret.
C20_SecretNotInKey ==
  [][/\ \A e \in KeyParts, g \in KeyParts, t \in KeyParts, i \in KeyParts :
          _make_pool_key(e, g, t, i) = e \o "|" \o g \o "|" \o t \o "|" \o i
     /\ \A a \in Arguments, b \in Arguments :
          IdentityOf(a) = IdentityOf(b) => KeyOf(a) = KeyOf(b)
     /\ DOMAIN connector_pool' \subseteq
          {a.xmla_endpoint \o "|" \o a.initial_catalog \o "|" \o a.tenant_id
             \o "|" \o a.client_id : a \in Arguments}
     /\ \A c \in Callers :
          LET id == IdentityOf(arguments[c]) IN
          /\ (/\ IsLookupStep(c)
              /\ lastCall[id].at # NoTime
              /\ now[c] - lastCall[id].at <= connection_ttl_seconds)
             => /\ connector'[c] = lastCall[id].conn
                /\ connector'[c] \in connected
          /\ (/\ pc[c] = "dispatch"
              /\ pc'[c] # "dispatch"
              /\ lastCall[id].at # NoTime
              /\ now[c] - lastCall[id].at <= connection_ttl_seconds)
             => /\ IsReturnStep(c)
                /\ created' = created
                /\ connected' = connected
                /\ lastCall'[id].conn = lastCall[id].conn]_vars

\* a second call, made within TTL with another client secret, is about to
\* return the connector the first call connected
C20_Witness ==
  \E c \in Callers :
    LET id == IdentityOf(arguments[c]) IN
    /\ pc[c] = "dispatch"
    /\ calls = 2 /\ created = 1
    /\ lastCall[id].secret # ""
    /\ lastCall[id].secret # arguments[c].client_secret
    /\ now[c] - lastCall[id].at <= connection_ttl_seconds
    /\ connector[c] = lastCall[id].conn
    /\ connector[c] \in connected
(* ======================= claims: service functions ===================== *)
\* the service call of the state is a finished call of function fn
Called(fn) == call.fn = fn /\ call.done

\* C13: the marker query never raises; whatever goes wrong on the way (the
\* client library, the import, the connection, the cursor, the query), and
\* when there are no rows or no timestamp in them, it returns unknown, and
\* otherwise the latest timestamp, so the operation that asked goes on.
C13_MarkerNeverRaises ==
  Called("_get_model_last_update_marker")
  => /\ ~call.raised
     /\ call.out \in Markers
     /\ call.env.fault # "none" => call.out = NoMarker
     /\ call.env.rows = <<>> => call.out = NoMarker
     /\ Stamps(call.env.rows) = {} => call.out = NoMarker
     /\ (call.env.fault = "none" /\ Stamps(call.env.rows) # {})
          => /\ call.out \in Stamps(call.env.rows)
             /\ \A m \in Stamps(call.env.rows) : m <= call.out

\* the query failed in execute, closing the cursor failed as well, and the
\* marker came back unknown
C13_Witness ==
  /\ Called("_get_model_last_update_marker")
  /\ call.env.fault = "execute" /\ call.env.close_fails
  /\ call.env.rows # <<>>
  /\ ~call.raised
  /\ call.out = NoMarker

\* the names the claim gives to the codes
CardinalityName(code) ==
  CASE code = 1 -> "One" [] code = 2 -> "Many" [] OTHER -> "Unknown"

CrossFilterName(code) ==
  CASE code = 1 -> "Single" [] code = 2 -> "Both" [] code = 3 -> "Automatic"
    [] code = 4 -> "None" [] OTHER -> "Unknown"

\* C16: _format_cardinality and _format_cross_filter return for every code:
\* 1 is "One" and 2 "Many"; 1 is "Single", 2 "Both", 3 "Automatic" and 4
\* "None"; every other code is "Unknown"; neither raises.
C16_FormatTotal ==
  /\ Called("_format_cardinality")
       => /\ ~call.raised
          /\ call.out = CardinalityName(call.args[1]) \o "-to-"
                          \o CardinalityName(call.args[2])
  /\ Called("_format_cross_filter")
       => /\ ~call.raised
          /\ call.out = CrossFilterName(call.args[1])

\* a cross-filter code above 4 was formatted as "Unknown"
C16_Witness ==
  /\ Called("_format_cross_filter")
  /\ call.args[1] > 4
  /\ ~call.raised
  /\ call.out = "Unknown"
\* the finished call is a get_all_relationships call served by the batch
\* path / by the per-table path
BatchServed == Called("get_all_relationships") /\ ~call.env.batch_fails

FallbackServed == Called("get_all_relationships") /\ call.env.batch_fails

\* the names the engine has for the ends of a raw relationship
FromTableOf(rel) == EngineTable(rel.FromTableID).Name

ToTableOf(rel) == EngineTable(rel.ToTableID).Name

FromColumnOf(rel) == EngineColumn(rel.FromColumnID).ExplicitName

ToColumnOf(rel) == EngineColumn(rel.ToColumnID).ExplicitName

\* both table ids and both column ids of the relationship resolve to a name
Resolvable(rel) ==
  /\ FromTableOf(rel) # "" /\ ToTableOf(rel) # ""
  /\ FromColumnOf(rel) # "" /\ ToColumnOf(rel) # ""

\* the relationships of the list that resolve
ResolvableIn(rels) == {i \in DOMAIN rels : Resolvable(rels[i])}

\* the number of views in a result
ViewCount(out) ==
  (IF "A" \in DOMAIN out THEN Len(out["A"]) ELSE 0)
  + (IF "B" \in DOMAIN out THEN Len(out["B"]) ELSE 0)

\* C14 as stated: every relationship that resolves yields exactly two views
\* in the result, and one that does not resolve yields none.
C14_TwoViewsPerRelationship ==
  BatchServed
  => ViewCount(call.out)
       = 2 * Cardinality(ResolvableIn(call.args.all_relationships))

\* C14 amended: the result has a list for every requested table and no
\* other; a relationship that resolves yields one view in the list of its
\* from table if that table was requested and one in the list of its to
\* table if that table was requested (two when both were); one that does
\* not resolve yields none, and the relationships after it are processed.
C14_OneViewPerRequestedEnd ==
  BatchServed
  => LET rels == call.args.all_relationships IN
     /\ ~call.raised
     /\ DOMAIN call.out = call.args.table_names
     /\ \A t \in call.args.table_names :
          Len(call.out[t])
            = Cardinality({i \in ResolvableIn(rels) : FromTableOf(rels[i]) = t})
              + Cardinality({i \in ResolvableIn(rels) : ToTableOf(rels[i]) = t})
     /\ call.args.table_names = {"A", "B"}
          => ViewCount(call.out) = 2 * Cardinality(ResolvableIn(rels))

\* the first relationship did not resolve, the second one, between A and B,
\* did and has one view in each table's list
C14_Witness ==
  /\ BatchServed
  /\ call.args.table_names = {"A", "B"}
  /\ Len(call.args.all_relationships) = 2
  /\ ~Resolvable(call.args.all_relationships[1])
  /\ Resolvable(call.args.all_relationships[2])
  /\ FromTableOf(call.args.all_relationships[2]) = "A"
  /\ ToTableOf(call.args.all_relationships[2]) = "B"
  /\ Len(call.out["A"]) = 1 /\ Len(call.out["B"]) = 1
  /\ call.out["A"][1].relatedTable = "B"
  /\ call.out["B"][1].relatedTable = "A"

\* the relationship is from A.colX (Many) to B.colY (One)
ManyToOneFromAToB(rel) ==
  /\ FromTableOf(rel) = "A" /\ FromColumnOf(rel) = "colX"
  /\ ToTableOf(rel) = "B" /\ ToColumnOf(rel) = "colY"
  /\ rel.FromCardinality = 2 /\ rel.ToCardinality = 1

\* C15: for a relationship from A.colX (Many) to B.colY (One) the view in
\* A's list has relatedTable B, fromColumn colX, toColumn colY, cardinality
\* "Many-to-One", and the view in B's list has relatedTable A, fromColumn
\* colY, toColumn colX, cardinality "One-to-Many".
C15_ViewsSwappedPerSide ==
  (BatchServed /\ call.args.table_names = {"A", "B"})
  => LET rels == call.args.all_relationships IN
     /\ \A i \in DOMAIN rels :
          ManyToOneFromAToB(rels[i])
          => /\ \E j \in DOMAIN call.out["A"] :
                  /\ call.out["A"][j].relatedTable = "B"
                  /\ call.out["A"][j].fromColumn = "colX"
                  /\ call.out["A"][j].toColumn = "colY"
                  /\ call.out["A"][j].cardinality = "Many-to-One"
             /\ \E j \in DOMAIN call.out["B"] :
                  /\ call.out["B"][j].relatedTable = "A"
                  /\ call.out["B"][j].fromColumn = "colY"
                  /\ call.out["B"][j].toColumn = "colX"
                  /\ call.out["B"][j].cardinality = "One-to-Many"
     /\ (Len(rels) = 1 /\ ManyToOneFromAToB(rels[1]))
          => /\ Len(call.out["A"]) = 1 /\ Len(call.out["B"]) = 1
             /\ call.out["A"][1].fromColumn = "colX"
             /\ call.out["A"][1].cardinality = "Many-to-One"
             /\ call.out["B"][1].fromColumn = "colY"
             /\ call.out["B"][1].toColumn = "colX"
             /\ call.out["B"][1].cardinality = "One-to-Many"

\* the model's only relationship is A.colX (Many) to B.colY (One) and each
\* table has its view of it
C15_Witness ==
  /\ BatchServed
  /\ call.args.table_names = {"A", "B"}
  /\ Len(call.args.all_relationships) = 1
  /\ ManyToOneFromAToB(call.args.all_relationships[1])
  /\ call.out["A"][1].cardinality = "Many-to-One"
  /\ call.out["A"][1].relationshipType = "Many-to-One"
  /\ call.out["B"][1].cardinality = "One-to-Many"
  /\ call.out["B"][1].relationshipType = "One-to-Many"
\* what a batch view and a per-table view say, field names set aside:
\* related table, own column, related column, cardinality, cross filter
BatchContent(v) ==
  <<v.relatedTable, v.fromColumn, v.toColumn, v.cardinality,
    v.crossFilterDirection>>

PerTableContent(v) ==
  <<v.related_table, v.local_column, v.related_column, v.cardinality,
    v.cross_filter>>

\* C17: when the batch query fails and no per-table query does, every
\* requested table gets from the per-table path the relationship content
\* the batch path gives for the same model.
C17_FallbackSameContent ==
  (/\ FallbackServed
   /\ \A t \in call.args.table_names : call.env.faults[t] = "none")
  => LET batch == ResolveAll([t \in call.args.table_names |-> <<>>],
                             call.args.all_relationships)
     IN \A t \in call.args.table_names :
          /\ Len(call.out[t]) = Len(batch[t])
          /\ \A j \in DOMAIN batch[t] :
               PerTableContent(call.out[t][j]) = BatchContent(batch[t][j])

\* C18: on the per-table path the call does not raise and returns a list
\* for every requested table: empty for a table whose query failed, and
\* for every other table the list its own query resolved.
C18_FallbackFailureIsLocal ==
  FallbackServed
  => /\ ~call.raised
     /\ DOMAIN call.out = call.args.table_names
     /\ \A t \in call.args.table_names :
          IF call.env.faults[t] = "none"
            THEN call.out[t] = PerTableViews(t, call.args.all_relationships)
            ELSE call.out[t] = <<>>

\* the query for A raised, the one for B did not: A's list is empty and B
\* has its relationship
C18_Witness ==
  /\ FallbackServed
  /\ call.args.table_names = {"A", "B"}
  /\ call.env.faults["A"] = "not_connected"
  /\ call.env.faults["B"] = "none"
  /\ call.out["A"] = <<>>
  /\ Len(call.out["B"]) = 1
  /\ call.out["B"][1].related_table = "A"
  /\ ~call.raised
(* ======================= claims: handle_list_tables ==================== *)
\* the step is the request's discover_tables call
IsDiscoverStep ==
  /\ h_pc = "connect" /\ h_pc' = "idle"
  /\ h_result'.served # NoConnector

\* C12: once a table list has been cached for an identity, a list-tables
\* request for that identity that finds the same known marker is served
\* from the cache without a fetch, whatever happened to the identity's
\* pooled session in between.
C12_CacheOutlivesSession ==
  [][(/\ IsDiscoverStep
      /\ entry_marker[KeyOf(h_arguments)] # NoTime
      /\ h_result'.marker # NoMarker
      /\ h_result'.marker = entry_marker[KeyOf(h_arguments)])
     => ~h_result'.fetched]_vars

(* ======================= claims: clean_dax_query ======================= *)
\* how many times x occurs in the sequence s
Occurrences(s, x) == Cardinality({i \in DOMAIN s : s[i] = x})

\* C21: cleaning removes only markup tags: every comparison operator < and >
\* written in the query is still in the cleaned query that execute_dax_query
\* sends to the engine.
C21_OperatorsPreserved ==
  Called("execute_dax_query") =>
    /\ Occurrences(call.out, "<") >= Occurrences(call.env.written, "lt")
    /\ Occurrences(call.out, ">") >= Occurrences(call.env.written, "gt")

(* ================== claims: concurrent getOrCreate calls =============== *)
\* caller c leaves the second critical section and returns
IsStoreStep(c) == pc[c] = "store" /\ pc'[c] = "idle"

\* caller c built its own connector and is about to store it, while the map
\* already holds another connector for its key: c's lookup had found no
\* entry, so that other connector was stored by a call that ran at the
\* same time as c's
LostRace(c) ==
  /\ pc[c] = "store"
  /\ is_new[c]
  /\ KeyOf(arguments[c]) \in DOMAIN connector_pool
  /\ connector_pool[KeyOf(arguments[c])].connector # connector[c]

\* C22: when two getOrCreate calls for one key miss at the same time, both
\* connect; once the second of them has stored, the map holds one entry for
\* the key with the later writer's session, every other entry is as it was,
\* and both callers were given a connected session.
C22_LaterWriterWins ==
  [][\A c \in Callers :
       (LostRace(c) /\ IsStoreStep(c)) =>
         LET key == KeyOf(arguments[c]) IN
         /\ DOMAIN connector_pool' = DOMAIN connector_pool
         /\ connector_pool'[key].connector = connector[c]
         /\ \A j \in DOMAIN connector_pool \ {key} :
              connector_pool'[j] = connector_pool[j]
         /\ lastConn'[key] = connector[c]
         /\ connector[c] \in connected'
         /\ connector_pool[key].connector \in connected']_vars

\* two calls, both at time 0, each built a connector and both have returned,
\* and the map has a single key: the two calls raced for it
C22_Witness ==
  /\ calls = 2 /\ created = 2 /\ clock = 0
  /\ \A c \in Callers : pc[c] = "idle"
  /\ connected = {1, 2}
  /\ \E k \in PoolKeys :
       /\ DOMAIN connector_pool = {k}
       /\ connector_pool[k].connector = lastConn[k]

ListOnlyEntries(cache) ==
  {k \in DOMAIN cache :
     cache[k].tables # NoValue /\ cache[k].table_schemas = NoEntry}

\* the list of every such entry is stored with the marker its fetching call
\* had observed
WholeEntries(cache) ==
  \A k \in ListOnlyEntries(cache) : cache[k].tables.seen = cache[k].version

\* C24: under any interleaving of discover_tables calls the cached list and
\* its marker are the pair one call wrote: a write replaces both with the
\* writer's list and marker (so the last writer's pair is what stays), a hit
\* returns a list that belongs to the stored marker, and no state has a
\* list paired with another call's marker.
C24_WholeEntryLastWriterWins ==
  [][/\ WholeEntries(_model_cache)
     /\ WholeEntries(_model_cache')
     /\ \A c \in Callers :
          LET k == cache_key[c] IN
          /\ (IsWriteStep(c) /\ op[c] = "tables") =>
               /\ _model_cache'[k].tables = fetched[c]
               /\ _model_cache'[k].version = current_marker[c]
               /\ fetched[c].seen = current_marker[c]
               /\ \A j \in DOMAIN _model_cache \ {k} :
                    _model_cache'[j] = _model_cache[j]
          /\ (IsHitStep(c) /\ op[c] = "tables" /\ k \in ListOnlyEntries(_model_cache)) =>
               /\ result'[c] = _model_cache[k].tables
               /\ result'[c].seen = _model_cache[k].version
               /\ _model_cache' = _model_cache]_vars

\* two discover_tables calls on one model have both missed and fetched under
\* different markers, and both are about to write
C24_Witness ==
  \E c \in Callers, d \in Callers :
    /\ c # d
    /\ cpc[c] = "write" /\ cpc[d] = "write"
    /\ op[c] = "tables" /\ op[d] = "tables"
    /\ cache_key[c] = cache_key[d]
    /\ current_marker[c] # current_marker[d]

\* C25: for each model key the marker stored with the cached table list
\* never decreases: no step replaces a stored known marker by an older one
\* or by unknown.
C25_StoredMarkerNeverDecreases ==
  [][\A k \in DOMAIN _model_cache :
       (_model_cache[k].tables # NoValue /\ _model_cache[k].version # NoMarker)
         => /\ k \in DOMAIN _model_cache'
            /\ _model_cache'[k].version # NoMarker
            /\ _model_cache'[k].version >= _model_cache[k].version]_vars

(* ===================== claims: pool entries and keys =================== *)
\* C26: in every reachable state every connector held by the pool map
\* reports connected: an entry is stored only after its connect succeeded
\* and nothing disconnects a pooled connector.
C26_PooledConnectorsConnected ==
  \A k \in DOMAIN connector_pool : connector_pool[k].connector \in connected

\* the map holds a session while one caller's connect has just failed and
\* another caller is connecting
C26_Witness ==
  /\ connector_pool # EmptyPool
  /\ \E c \in Callers, d \in Callers :
       /\ pc[c] = "raised" /\ connector[c] # NoConnector
       /\ pc[d] = "connect"

\* C27: the pool key is injective on connection identities: two identities
\* that differ in endpoint, catalog, tenant id or client id never get the
\* same key.
C27_KeyInjective ==
  Called("_make_pool_key") =>
    (call.args[1] # call.args[2] => call.out[1] # call.out[2])

\* C28: a getOrCreate call for key k never adds, replaces or refreshes the
\* entry of another key: whatever step of the call is taken, every other
\* key's entry is either exactly as it was or has been removed, and it is
\* removed only by the call's lookup and only when it is older than the TTL
\* at the call's `now`.
C28_OtherKeysOnlySwept ==
  [][\A c \in Callers :
       pc'[c] # pc[c] =>
         \A k2 \in PoolKeys :
           (pc[c] \in Resting \/ k2 # KeyOf(arguments[c])) =>
             /\ k2 \in DOMAIN connector_pool' =>
                  /\ k2 \in DOMAIN connector_pool
                  /\ connector_pool'[k2] = connector_pool[k2]
             /\ (k2 \in DOMAIN connector_pool /\ k2 \notin DOMAIN connector_pool') =>
                  /\ IsLookupStep(c)
                  /\ now[c] - connector_pool[k2].last_used > connection_ttl_seconds]_vars

\* a caller's lookup has just removed the expired entry of another key
C28_Witness ==
  \E c \in Callers, k2 \in PoolKeys :
    /\ pc[c] = "dispatch"
    /\ k2 # KeyOf(arguments[c])
    /\ k2 \in DOMAIN prePool[c]
    /\ k2 \notin DOMAIN connector_pool

(* ===================== claims: failed schema fetches =================== *)
\* C29: get_table_schema caches a table's schema only when the fetch
\* succeeded: the result of failed engine queries is never a cache entry,
\* so the next call for the table fetches again.
C29_FailedSchemaNotCached ==
  \A k \in DOMAIN _model_cache :
    \A t \in DOMAIN _model_cache[k].table_schemas :
      _model_cache[k].table_schemas[t].data.what # "error"

(* ===================== claims: handle_get_table_info =================== *)
\* C30: every engine operation of a table-info request, the schema lookup
\* and the sample-rows query alike, runs on the connector that getOrCreate
\* returned for the request, never on another connector.
C30_RunsOnBorrowedSession ==
  /\ h_ran_on.schema \in {NoConnector, h_ran_on.borrowed}
  /\ h_ran_on.sample \in {NoConnector, h_ran_on.borrowed}
====
